---- MODULE Spec2Model ----
(***************************************************************************)
(* Model of the VRP session context store (VrpContextStore) of             *)
(* python-backend/app/vrp/context_store.py and of its callers.             *)
(*                                                                         *)
(* The store is a Python dict from session id to a context dict, guarded   *)
(* by one asyncio.Lock.  Context dicts are heap objects: the store and the *)
(* callers hold references to them, so the model keeps an explicit heap.   *)
(* Every coroutine of the store is modelled as: enter `async with` (take   *)
(* the lock or queue behind it), the statements of the body, and the exit  *)
(* of the `async with` block (release, then return or propagate).          *)
(***************************************************************************)
EXTENDS Integers, Sequences, FiniteSets, TLC

\* ---------------------------------------------------------------- bounds
MaxTime == 3
MaxHours == 1
TicksPerHour == 2
\* Longest list of jobs, of resources and of shifts of a problem document.
MaxLen == 2
\* Most time windows of a job and most breaks of a shift.
MaxCount == 2
\* The limit on jobs and on resources of the problems sized around it.
MaxLimit == 5

\* Keywords and other words joined into one aspect.
MaxWords == 2

\* Trips of one solution.
MaxTrips == 2

\* ------------------------------------------------------------ value sets
None == "None"
\* The null reference (Python's None where a context dict is expected).
NoRef == 0
\* A heap cell that holds no dict, and the view of a session without entry.
Free == [request |-> None, solution |-> None, updated_at |-> <<>>,
         session_id |-> "free"]
Absent == [request |-> None, solution |-> None, updated_at |-> <<>>,
           session_id |-> "absent"]
AllSessions == {"s1", "s2"}
AllTasks == {"t1", "t2"}
Problems == {"p1", "p2"}
Solutions == {"v1"}
OptSolutions == Solutions \cup {None}
Addrs == 1..(Cardinality(AllSessions) + Cardinality(AllTasks))

VARIABLES
    world,      \* the callers and the inputs of this run (never changes)
    contexts,   \* self._contexts: the dict, as its items in insertion order
    heap,       \* the context dicts, by address
    locked,     \* self._lock: whether the asyncio.Lock is held
    waiters,    \* self._lock: coroutines queued behind the lock, in order
    now,        \* the wall clock that datetime.now() reads
    pc,         \* per task: position in the coroutine it runs
    op,         \* per task: the call it runs and its arguments
    ret,        \* per task: the value its return statement has produced
    exc,        \* per task: whether an exception is propagating
    tnow,       \* per task: local `now` of clear_old_sessions
    held,       \* per task: the context dict the caller keeps from its get
    last,       \* the store call that left the lock most recently
    evicted,    \* per maximal age h: whether clear_old_sessions(h) has run
                \* since the last save or update_solution, and whether the
                \* clock has moved since it did
    listed,     \* what the caller keeps of its last list_sessions
    vrp_data,   \* validate_complexity: the problem document it is given
    limits,     \* validate_complexity: the ComplexityLimits it is given
    complexity_check,   \* validate_complexity: the result it returned
    handler,    \* solve_vrp: position and locals of the request handler
    solver,     \* the request bodies the external solver has been sent
    context_handler,    \* store_vrp_context: per task, position, response
                        \* and, until it answers, the store as it was
                        \* when the request came
    aspect,     \* analyze_solution: the aspect argument
    vrp_context,    \* the tools: ctx.context.vrp_context
    tool_result     \* the tools: what the tool returned

\* The state outside the store: the validator, the request handler, the tools.
outer == <<vrp_data, limits, complexity_check, handler, solver,
           context_handler, aspect, vrp_context, tool_result>>

vars == <<world, contexts, heap, locked, waiters, now, pc, op, ret, exc,
          tnow, held, last, evicted, listed, outer>>

Tasks == world.tasks
Sessions == world.sessions
Requests == world.requests
Hours == 0..world.hours

\* ------------------------------------------------ datetime <-> ISO string
\* A datetime is a tick count; its ISO string is <<hours, fraction>>, the
\* fraction being left out when it is zero (as isoformat leaves out the
\* microseconds).
isoformat(t) ==
    IF t % TicksPerHour = 0 THEN <<t \div TicksPerHour>>
    ELSE <<t \div TicksPerHour, t % TicksPerHour>>

fromisoformat(s) ==
    IF Len(s) = 1 THEN s[1] * TicksPerHour
    ELSE s[1] * TicksPerHour + s[2]

\* ------------------------------------------------------- dict operations
Keys(c) == [i \in 1..Len(c) |-> c[i].key]

HasKey(c, s) == \E i \in 1..Len(c) : c[i].key = s

DictGet(c, s) ==
    IF HasKey(c, s) THEN c[CHOOSE i \in 1..Len(c) : c[i].key = s].ref
    ELSE NoRef

DictSet(c, s, a) ==
    IF HasKey(c, s)
    THEN [i \in 1..Len(c) |->
             IF c[i].key = s THEN [key |-> s, ref |-> a] ELSE c[i]]
    ELSE Append(c, [key |-> s, ref |-> a])

DictDel(c, s) == SelectSeq(c, LAMBDA e : e.key # s)

\* --------------------------------------------------------------- the heap
Roots(c, hd) ==
    {c[i].ref : i \in 1..Len(c)} \cup ({hd[t] : t \in AllTasks} \ {NoRef})

\* Reference counting: a dict nobody refers to any more is gone.
Collect(h, c, hd) ==
    [a \in Addrs |-> IF a \in Roots(c, hd) THEN h[a] ELSE Free]

NewAddr(h) ==
    CHOOSE a \in Addrs : h[a] = Free /\ \A b \in Addrs : b < a => h[b] # Free

\* The store as values: session id -> the context stored for it, or Absent.
ViewOf(c, h) ==
    [s \in AllSessions |-> IF HasKey(c, s) THEN h[DictGet(c, s)] ELSE Absent]

View == ViewOf(contexts, heap)

\* What a call returns: the context dict of get, the list of
\* list_sessions, the count of clear_old_sessions; None otherwise.
NoRet == [ref |-> NoRef, keys |-> <<>>, live |-> FALSE, count |-> 0]

\* The caller has no list of sessions yet.
NoListed == [kind |-> "none", keys |-> <<>>]

NoOp == [kind |-> "none", sid |-> None, request |-> None,
         solution |-> None, hours |-> 0]

\* ------------------------------------------- the state outside the store
\* An optional value (a key a dict may lack, an argument that may be None)
\* is a sequence of at most one element.
Missing == <<>>

Some(x) == <<x>>

\* d.get(key, default)
GetOr(field, default) == IF field = Missing THEN default ELSE field[1]

\* DEMO_COMPLEXITY_LIMITS, the limits validate_complexity defaults to.
DEMO_COMPLEXITY_LIMITS ==
    [max_jobs |-> 250, max_resources |-> 30, max_time_windows_per_job |-> 5,
     max_breaks_per_resource |-> 3]

\* A problem document without any key.
EmptyDocument == [jobs |-> Missing, resources |-> Missing]

\* No validation has been done.
NoCheck ==
    [valid |-> FALSE, errors |-> <<>>, warnings |-> <<>>,
     actual_complexity |-> [job_count |-> 0, resource_count |-> 0,
                            max_time_windows |-> 0,
                            total_time_windows |-> 0]]

\* No response has been sent.
NoResponse ==
    [status_code |-> 0, type |-> None, errors |-> <<>>, warnings |-> <<>>,
     actualComplexity |-> [jobCount |-> 0, resourceCount |-> 0,
                           maxTimeWindows |-> 0, totalTimeWindows |-> 0],
     content |-> None]

\* The solver has not answered.
NoSolution == [json |-> None]

\* No solve request is being handled.
NoHandler ==
    [pc |-> "idle", request_data |-> None, header |-> Missing,
     session_id |-> None, complexity_check |-> NoCheck,
     solution |-> NoSolution, response |-> NoResponse]

ValidatorAtRest ==
    /\ vrp_data = EmptyDocument
    /\ limits = DEMO_COMPLEXITY_LIMITS
    /\ complexity_check = NoCheck

\* No store-context request is being handled.
NoContextHandler ==
    [pc |-> "idle", status_code |-> 0, type |-> None, before |-> <<>>]

HandlerAtRest ==
    /\ handler = NoHandler
    /\ solver = {}
    /\ context_handler = [t \in AllTasks |-> NoContextHandler]

\* JSON values other than strings carry their type: None, a list, a number;
\* a dict is a record of its optional keys.
NoneValue == [is |-> "None"]

List(items) == [is |-> "list", items |-> items]

Number(n) == [is |-> "int", n |-> n]

\* No tool has returned.
NoToolResult == [tool |-> "none"]

ToolsAtRest ==
    /\ aspect = <<>>
    /\ vrp_context = NoneValue
    /\ tool_result = NoToolResult

\* Nothing runs outside the store.
OuterAtRest == ValidatorAtRest /\ HandlerAtRest /\ ToolsAtRest

\* Nobody calls the store.
NoWorld ==
    [tasks |-> {}, sessions |-> {}, requests |-> {}, horizon |-> 0,
     hours |-> 0, keepers |-> {}, listers |-> {}]

\* One caller at a time, over the whole input domain; the caller uses what
\* get returns at once.
SerialWorld ==
    [tasks |-> {"t1"}, sessions |-> AllSessions, requests |-> Problems,
     horizon |-> MaxTime, hours |-> MaxHours, keepers |-> {},
     listers |-> {}]

\* Concurrent callers of one session.  A request that is no dict makes save
\* raise; t1 keeps the dict that get returned, as the chat handler does.
ConcurrentWorld ==
    [tasks |-> AllTasks, sessions |-> {"s1"}, requests |-> {"p1", None},
     horizon |-> 1, hours |-> 0, keepers |-> {"t1"}, listers |-> {}]

\* One caller that keeps the list list_sessions gave it while it goes on
\* using the store.
ListWorld ==
    [tasks |-> {"t1"}, sessions |-> AllSessions, requests |-> {"p1"},
     horizon |-> 1, hours |-> 0, keepers |-> {}, listers |-> {"t1"}]

InitStore ==
    /\ contexts = <<>>
    /\ heap = [a \in Addrs |-> Free]
    /\ locked = FALSE
    /\ waiters = <<>>
    /\ now = 0
    /\ pc = [t \in AllTasks |-> "idle"]
    /\ op = [t \in AllTasks |-> NoOp]
    /\ ret = [t \in AllTasks |-> NoRet]
    /\ exc = [t \in AllTasks |-> FALSE]
    /\ tnow = [t \in AllTasks |-> 0]
    /\ held = [t \in AllTasks |-> NoRef]
    /\ last = NoOp
    /\ evicted = [h \in 0..MaxHours |-> "no"]
    /\ listed = NoListed

Init == world = ConcurrentWorld /\ InitStore /\ OuterAtRest

InitSerial == world = SerialWorld /\ InitStore /\ OuterAtRest

InitList == world = ListWorld /\ InitStore /\ OuterAtRest

\* ------------------------------------------------------------ asyncio.Lock
\* Variant: no lock at all.
CanAlwaysAcquire == TRUE

\* Lock.acquire takes the lock at once when it is free and nobody queues for
\* it; otherwise the caller queues and is woken, first come first served,
\* when the lock is released.
CanAcquire == ~locked /\ waiters = <<>>

Acquire(t) ==
    IF CanAcquire
    THEN /\ locked' = TRUE
         /\ pc' = [pc EXCEPT ![t] = "locked"]
         /\ UNCHANGED waiters
    ELSE /\ waiters' = Append(waiters, t)
         /\ pc' = [pc EXCEPT ![t] = "wait"]
         /\ UNCHANGED locked

\* A queued caller whose turn has come takes the released lock.
Wake(t) ==
    /\ pc[t] = "wait"
    /\ ~locked
    /\ waiters # <<>>
    /\ Head(waiters) = t
    /\ locked' = TRUE
    /\ waiters' = Tail(waiters)
    /\ pc' = [pc EXCEPT ![t] = "locked"]
    /\ UNCHANGED <<outer, listed, world, contexts, heap, now, op, ret, exc,
                   tnow, held, last, evicted>>

\* Variant: the cancelled caller drops the head of the queue.
WaitersAfterCancelPopleft(w, t) == Tail(w)

\* finally: self._waiters.remove(fut)
WaitersAfterCancel(w, t) == SelectSeq(w, LAMBDA u : u # t)

\* The caller's request is cancelled while it waits for the lock:
\* CancelledError is raised at the await inside acquire, the caller leaves
\* the queue and the lock is not taken (a wake-up it was given passes to the
\* next in the queue).
Cancel(t) ==
    /\ pc[t] = "wait"
    /\ waiters' = WaitersAfterCancel(waiters, t)
    /\ pc' = [pc EXCEPT ![t] = "cancelled"]
    /\ UNCHANGED <<outer, listed, world, contexts, heap, locked, now, op, ret,
                   exc, tnow, held, last, evicted>>

\* CancelledError leaves the coroutine: the call is over.
Cancelled(t) ==
    /\ pc[t] = "cancelled"
    /\ pc' = [pc EXCEPT ![t] = "idle"]
    /\ op' = [op EXCEPT ![t] = NoOp]
    /\ UNCHANGED <<outer, listed, world, contexts, heap, locked, waiters, now,
                   ret, exc, tnow, held, last, evicted>>

\* The call of a coroutine of the store, up to its `async with`.
Enter(t, o) ==
    /\ pc[t] = "idle"
    /\ op' = [op EXCEPT ![t] = o]
    /\ Acquire(t)
    /\ UNCHANGED <<listed, world, contexts, heap, now, ret, exc, tnow, held,
                   last, evicted>>

\* A call by a caller that has no state of its own in the model.
Call(t, o) == Enter(t, o) /\ UNCHANGED outer

\* ------------------------------------------------- entering the coroutines
save(t, s, p, v) ==
    Call(t, [kind |-> "save", sid |-> s, request |-> p, solution |-> v,
             hours |-> 0])

get(t, s) ==
    Call(t, [kind |-> "get", sid |-> s, request |-> None, solution |-> None,
             hours |-> 0])

update_solution(t, s, v) ==
    Call(t, [kind |-> "update_solution", sid |-> s, request |-> None,
             solution |-> v, hours |-> 0])

delete(t, s) ==
    Call(t, [kind |-> "delete", sid |-> s, request |-> None,
             solution |-> None, hours |-> 0])

list_sessions(t) ==
    Call(t, [kind |-> "list_sessions", sid |-> None, request |-> None,
             solution |-> None, hours |-> 0])

clear_old_sessions(t, h) ==
    Call(t, [kind |-> "clear_old_sessions", sid |-> None, request |-> None,
             solution |-> None, hours |-> h])

\* Variant: a save without request keeps the request the session has.
SaveEntryKeepRequest(s, p, v, t) ==
    [request |-> IF p = None /\ HasKey(contexts, s)
                 THEN heap[DictGet(contexts, s)].request ELSE p,
     solution |-> v, updated_at |-> isoformat(t), session_id |-> s]

\* ------------------------------------------------------------ save, body
\* Variant: a save without solution keeps the solution the session had.
SaveEntryKeepSolution(s, p, v, t) ==
    [request |-> p,
     solution |-> IF v = None /\ HasKey(contexts, s)
                  THEN heap[DictGet(contexts, s)].solution ELSE v,
     updated_at |-> isoformat(t), session_id |-> s]

SaveEntry(s, p, v, t) ==
    [request |-> p, solution |-> v, updated_at |-> isoformat(t),
     session_id |-> s]

\* Variant: the whole dict is replaced by one holding the new entry alone.
SaveContextsAlone(c, s, a) == <<[key |-> s, ref |-> a]>>

\* self._contexts[session_id] = {...}: a new dict takes the key's place (the
\* address is the first one free once the replaced dict is released).
SaveContexts(c, s, a) == DictSet(c, s, a)

\* request.get(...) in the log line raises when the request is no dict; the
\* assignment has been done by then.
SaveRaises(p) == p = None

NoEvicted == [h \in 0..MaxHours |-> "no"]

save_body(t) ==
    /\ pc[t] = "locked"
    /\ op[t].kind = "save"
    /\ LET a == NewAddr(Collect(heap, DictDel(contexts, op[t].sid), held))
           h1 == [heap EXCEPT ![a] = SaveEntry(op[t].sid, op[t].request,
                                               op[t].solution, now)]
           c1 == SaveContexts(contexts, op[t].sid, a)
       IN /\ contexts' = c1
          /\ heap' = Collect(h1, c1, held)
    /\ exc' = [exc EXCEPT ![t] = SaveRaises(op[t].request)]
    /\ evicted' = NoEvicted
    /\ pc' = [pc EXCEPT ![t] = "exit"]
    /\ UNCHANGED <<outer, listed, world, locked, waiters, now, op, ret, tnow, held, last>>

\* ------------------------------------------------------------- get, body
\* Variant: a context without solution is reported as missing.
GetResultIfSolved(c, s) ==
    IF HasKey(c, s) /\ heap[DictGet(c, s)].solution # None
    THEN DictGet(c, s) ELSE NoRef

\* context = self._contexts.get(session_id); return context
GetResult(c, s) == DictGet(c, s)

get_body(t) ==
    /\ pc[t] = "locked"
    /\ op[t].kind = "get"
    /\ ret' = [ret EXCEPT ![t].ref = GetResult(contexts, op[t].sid)]
    /\ pc' = [pc EXCEPT ![t] = "exit"]
    /\ UNCHANGED <<outer, listed, world, contexts, heap, locked, waiters, now, op, exc,
                   tnow, held, last, evicted>>

\* ------------------------------------------------- update_solution, body
\* Variant: no membership test before the two assignments.
UpdateAlways(c, s) == TRUE

\* if session_id in self._contexts
UpdateApplies(c, s) == HasKey(c, s)

\* Variant: the context is rebuilt around the new solution, the request is
\* lost.
SetSolutionAlone(c, h, s, v) ==
    [h EXCEPT ![DictGet(c, s)] = [@ EXCEPT !.solution = v, !.request = None]]

\* self._contexts[session_id]["solution"] = solution
SetSolution(c, h, s, v) ==
    [h EXCEPT ![DictGet(c, s)] = [@ EXCEPT !.solution = v]]

\* self._contexts[session_id]["updated_at"] = datetime.now().isoformat()
SetUpdatedAt(c, h, s, t) ==
    [h EXCEPT ![DictGet(c, s)] = [@ EXCEPT !.updated_at = isoformat(t)]]

\* Subscripting the dict with a key it does not hold raises KeyError.
update_solution_set(t) ==
    /\ pc[t] = "locked"
    /\ op[t].kind = "update_solution"
    /\ UpdateApplies(contexts, op[t].sid)
    /\ IF HasKey(contexts, op[t].sid)
       THEN /\ heap' = SetSolution(contexts, heap, op[t].sid, op[t].solution)
            /\ evicted' = NoEvicted
            /\ pc' = [pc EXCEPT ![t] = "mid"]
            /\ UNCHANGED exc
       ELSE /\ exc' = [exc EXCEPT ![t] = TRUE]
            /\ pc' = [pc EXCEPT ![t] = "exit"]
            /\ UNCHANGED <<heap, evicted>>
    /\ UNCHANGED <<outer, listed, world, contexts, locked, waiters, now, op, ret, tnow,
                   held, last>>

update_solution_stamp(t) ==
    /\ pc[t] = "mid"
    /\ op[t].kind = "update_solution"
    /\ heap' = SetUpdatedAt(contexts, heap, op[t].sid, now)
    /\ pc' = [pc EXCEPT ![t] = "exit"]
    /\ UNCHANGED <<outer, listed, world, contexts, locked, waiters, now, op, ret, exc, tnow,
                   held, last, evicted>>

update_solution_miss(t) ==
    /\ pc[t] = "locked"
    /\ op[t].kind = "update_solution"
    /\ ~UpdateApplies(contexts, op[t].sid)
    /\ pc' = [pc EXCEPT ![t] = "exit"]
    /\ UNCHANGED <<outer, listed, world, contexts, heap, locked, waiters, now, op, ret, exc,
                   tnow, held, last, evicted>>

\* ---------------------------------------------------------- delete, body
\* Variant: the entry saved last is removed, whatever its session.
DeleteNewest(c, s) == IF HasKey(c, s) THEN SubSeq(c, 1, Len(c) - 1) ELSE c

\* if session_id in self._contexts: del self._contexts[session_id]
DeleteEntry(c, s) == IF HasKey(c, s) THEN DictDel(c, s) ELSE c

delete_body(t) ==
    /\ pc[t] = "locked"
    /\ op[t].kind = "delete"
    /\ LET c1 == DeleteEntry(contexts, op[t].sid)
       IN /\ contexts' = c1
          /\ heap' = Collect(heap, c1, held)
    /\ pc' = [pc EXCEPT ![t] = "exit"]
    /\ UNCHANGED <<outer, listed, world, locked, waiters, now, op, ret, exc, tnow, held,
                   last, evicted>>

\* --------------------------------------------------- list_sessions, body
\* Variant: the keys view of the dict is returned, not a list made of it.
KeysView(c) == [live |-> TRUE, keys |-> Keys(c)]

\* list(self._contexts.keys()): a new list of the keys as they are now.
ListOfKeys(c) == [live |-> FALSE, keys |-> Keys(c)]

list_sessions_body(t) ==
    /\ pc[t] = "locked"
    /\ op[t].kind = "list_sessions"
    /\ ret' = [ret EXCEPT ![t].keys = ListOfKeys(contexts).keys,
                          ![t].live = ListOfKeys(contexts).live]
    /\ pc' = [pc EXCEPT ![t] = "exit"]
    /\ UNCHANGED <<outer, listed, world, contexts, heap, locked, waiters, now, op, exc,
                   tnow, held, last, evicted>>

\* ---------------------------------------------- clear_old_sessions, body
\* Variant: >= in place of >.
IsOldOrEqual(ctx, n, h) ==
    (n - fromisoformat(ctx.updated_at)) >= h * TicksPerHour

\* age_hours = (now - updated_at).total_seconds() / 3600 is a real number:
\* age_hours > max_age_hours iff the age in ticks exceeds that many hours.
IsOld(ctx, n, h) ==
    (n - fromisoformat(ctx.updated_at)) > h * TicksPerHour

\* the first loop: to_delete
ScanOld(c, hp, n, h) ==
    SelectSeq(Keys(c), LAMBDA s : IsOld(hp[DictGet(c, s)], n, h))

\* Variant: the loop stops after its first deletion.
DeleteFirst(c, del) == IF del = <<>> THEN c ELSE DictDel(c, Head(del))

\* the second loop: del self._contexts[session_id] for each of to_delete
RECURSIVE DeleteAll(_, _)
DeleteAll(c, del) ==
    IF del = <<>> THEN c
    ELSE DeleteAll(DictDel(c, Head(del)), Tail(del))

clear_old_sessions_body(t) ==
    /\ pc[t] = "locked"
    /\ op[t].kind = "clear_old_sessions"
    /\ LET to_delete == ScanOld(contexts, heap, now, op[t].hours)
           c1 == DeleteAll(contexts, to_delete)
       IN /\ contexts' = c1
          /\ heap' = Collect(heap, c1, held)
          /\ ret' = [ret EXCEPT ![t].count = Len(to_delete)]
    /\ tnow' = [tnow EXCEPT ![t] = now]
    /\ pc' = [pc EXCEPT ![t] = "exit"]
    /\ UNCHANGED <<outer, listed, world, locked, waiters, now, op, exc, held, last, evicted>>

\* ------------------------------------------- leaving the `async with` block
\* Variant: acquire/release without try/finally, the release is skipped
\* when the body raises.
LockKeptOnError(t) == exc[t]

\* __aexit__ releases the lock whether the body returned or raised.
LockAfterExit(t) == FALSE

\* vrp_data = await vrp_context_store.get(session_id): the chat handler keeps
\* the dict for the tools of the agent run.
HeldAfter(t) ==
    IF op[t].kind = "get" /\ t \in world.keepers THEN ret[t].ref ELSE held[t]

\* What the history remembers of a call: a save with its arguments, a
\* delete with its session, a clear_old_sessions with its maximal age and
\* the clock reading it used.
LastOf(t) ==
    IF op[t].kind \in {"save", "delete"} THEN op[t]
    ELSE [NoOp EXCEPT !.kind = "other"]

\* sessions = await store.list_sessions(): the caller keeps what it got.
ListedAfter(t) ==
    IF op[t].kind = "list_sessions" /\ t \in world.listers
    THEN [kind |-> IF ret[t].live THEN "view" ELSE "list",
          keys |-> ret[t].keys]
    ELSE listed

EvictedAfter(t) ==
    IF op[t].kind = "clear_old_sessions"
    THEN [evicted EXCEPT ![op[t].hours] = IF tnow[t] = now THEN "now"
                                          ELSE "before"]
    ELSE evicted

\* Leaving the `async with` block and the coroutine.
Exit(t) ==
    /\ pc[t] = "exit"
    /\ locked' = LockAfterExit(t)
    /\ last' = LastOf(t)
    /\ evicted' = EvictedAfter(t)
    /\ LET hd == [held EXCEPT ![t] = HeldAfter(t)]
       IN /\ held' = hd
          /\ heap' = Collect(heap, contexts, hd)
    /\ pc' = [pc EXCEPT ![t] = "idle"]
    /\ op' = [op EXCEPT ![t] = NoOp]
    /\ ret' = [ret EXCEPT ![t] = NoRet]
    /\ exc' = [exc EXCEPT ![t] = FALSE]
    /\ tnow' = [tnow EXCEPT ![t] = 0]
    /\ listed' = ListedAfter(t)
    /\ UNCHANGED <<world, contexts, waiters, now>>

\* The return to a caller that has no state of its own in the model.
Release(t) == Exit(t) /\ UNCHANGED outer

\* ---------------------------------------------------------------- the clock
Tick ==
    /\ now < world.horizon
    /\ now' = now + 1
    /\ evicted' = [h \in 0..MaxHours |->
                      IF evicted[h] = "now" THEN "before" ELSE evicted[h]]
    /\ UNCHANGED <<outer, listed, world, contexts, heap, locked, waiters, pc, op, ret, exc,
                   tnow, held, last>>

\* What a caller may start.
Calls ==
    \/ \E t \in Tasks, s \in Sessions, p \in Requests, v \in OptSolutions :
          save(t, s, p, v)
    \/ \E t \in Tasks, s \in Sessions : get(t, s)
    \/ \E t \in Tasks, s \in Sessions, v \in Solutions :
          update_solution(t, s, v)
    \/ \E t \in Tasks, s \in Sessions : delete(t, s)
    \/ \E t \in Tasks : list_sessions(t)
    \/ \E t \in Tasks, h \in Hours : clear_old_sessions(t, h)

\* The statements inside the `async with` blocks, and leaving them.
Bodies ==
    \/ \E t \in Tasks : save_body(t)
    \/ \E t \in Tasks : get_body(t)
    \/ \E t \in Tasks : update_solution_set(t)
    \/ \E t \in Tasks : update_solution_stamp(t)
    \/ \E t \in Tasks : update_solution_miss(t)
    \/ \E t \in Tasks : delete_body(t)
    \/ \E t \in Tasks : list_sessions_body(t)
    \/ \E t \in Tasks : clear_old_sessions_body(t)
    \/ \E t \in Tasks : Release(t)

Next ==
    \/ Calls
    \/ \E t \in Tasks : Wake(t)
    \/ Bodies
    \/ Tick

\* A single caller never finds the lock taken.
NextSerial ==
    \/ Calls
    \/ Bodies
    \/ Tick

\* Concurrent callers of one session.
Spec == Init /\ [][Next]_vars

\* One caller, the whole input domain.
SpecSerial == InitSerial /\ [][NextSerial]_vars

\* One caller that keeps the list of sessions it was given.
SpecList == InitList /\ [][NextSerial]_vars

\* What the caller reads in the object list_sessions gave it: a list holds
\* the keys it was made of, a keys view shows the dict as it is now.
ReadListed == IF listed.kind = "view" THEN Keys(contexts) ELSE listed.keys

\* The event loop runs every coroutine that can run: one that holds the lock
\* goes on to the end of its block, one that was woken takes the lock.
Progress(t) ==
    \/ Wake(t)
    \/ save_body(t)
    \/ get_body(t)
    \/ update_solution_set(t)
    \/ update_solution_stamp(t)
    \/ update_solution_miss(t)
    \/ delete_body(t)
    \/ list_sessions_body(t)
    \/ clear_old_sessions_body(t)
    \/ Release(t)

SpecFair == Spec /\ \A t \in AllTasks : WF_vars(Progress(t))

\* Concurrent callers whose requests may be cancelled while they wait.
NextCancel ==
    \/ Next
    \/ \E t \in Tasks : Cancel(t)
    \/ \E t \in Tasks : Cancelled(t)

\* Two callers of one session.
CancelWorld ==
    [tasks |-> AllTasks, sessions |-> {"s1"}, requests |-> {"p1"},
     horizon |-> 1, hours |-> 0, keepers |-> {}, listers |-> {}]

InitCancel == world = CancelWorld /\ InitStore /\ OuterAtRest

SpecCancel == InitCancel /\ [][NextCancel]_vars

\* Cancellation comes from outside: no cancellation is ever required.
SpecCancelFair ==
    SpecCancel /\ \A t \in AllTasks : WF_vars(Progress(t) \/ Cancelled(t))


(***************************************************************************)
(* validators.py: validate_complexity.                                     *)
(*                                                                         *)
(* A problem document is a dict with the optional keys "jobs" and          *)
(* "resources"; a job has the optional keys "name" and "windows", a        *)
(* resource "name" and "shifts", a shift "breaks".  Lists are sequences.   *)
(***************************************************************************)
\* The messages, as the values their text is formatted from.
TooManyJobsError(job_count, lim) ==
    [kind |-> "Too many jobs", label |-> "", shift |-> 0,
     count |-> job_count, maximum |-> lim.max_jobs]

NoJobError ==
    [kind |-> "At least 1 job is required", label |-> "", shift |-> 0,
     count |-> 0, maximum |-> 0]

TooManyVehiclesError(resource_count, lim) ==
    [kind |-> "Too many vehicles", label |-> "", shift |-> 0,
     count |-> resource_count, maximum |-> lim.max_resources]

NoResourceError ==
    [kind |-> "At least 1 vehicle/resource is required", label |-> "",
     shift |-> 0, count |-> 0, maximum |-> 0]

\* f'Job "{job_name}" has {window_count} time windows (maximum ...)'
JobWindowsError(job_name, window_count, lim) ==
    [kind |-> "Job has time windows", label |-> job_name, shift |-> 0,
     count |-> window_count, maximum |-> lim.max_time_windows_per_job]

\* f'Resource "{resource_name}" shift {shift_idx} has {break_count} breaks'
ShiftBreaksError(resource_name, shift_idx, break_count, lim) ==
    [kind |-> "Resource shift has breaks", label |-> resource_name,
     shift |-> shift_idx, count |-> break_count,
     maximum |-> lim.max_breaks_per_resource]

JobLimitWarning(job_count, lim) ==
    [kind |-> "Approaching job limit", count |-> job_count,
     maximum |-> lim.max_jobs]

ResourceLimitWarning(resource_count, lim) ==
    [kind |-> "Approaching resource limit", count |-> resource_count,
     maximum |-> lim.max_resources]

\* Variant: a list as long as the limit is too long already.
AtLeast(count, maximum) == count >= maximum

\* job_count > limits.max_jobs, and the three comparisons like it
Exceeds(count, maximum) == count > maximum

\* Variant: the threshold is 80% of the limit or more.
ApproachesOrEquals(count, maximum) == 5 * count >= 4 * maximum

\* job_count > limits.max_jobs * 0.8: the product is the double nearest to
\* four fifths of the limit, which an integer exceeds iff five times the
\* integer exceeds four times the limit.
Approaches(count, maximum) == 5 * count > 4 * maximum

\* Variant: the count of the job at hand replaces the maximum.
MaxWindowsOfLast(max_time_windows, window_count) == window_count

\* if window_count > max_time_windows: max_time_windows = window_count
MaxWindowsSoFar(max_time_windows, window_count) ==
    IF window_count > max_time_windows THEN window_count
    ELSE max_time_windows

\* The loop over the jobs, from the job at position idx (counted from 0).
RECURSIVE check_jobs(_, _, _, _)
check_jobs(jobs, idx, lim, st) ==
    IF idx >= Len(jobs) THEN st
    ELSE LET job == jobs[idx + 1]
             windows == GetOr(job.windows, <<>>)
             window_count == Len(windows)
             job_name == GetOr(job.name, ToString(idx))
         IN check_jobs(jobs, idx + 1, lim,
               [errors |->
                   IF Exceeds(window_count, lim.max_time_windows_per_job)
                   THEN Append(st.errors,
                               JobWindowsError(job_name, window_count, lim))
                   ELSE st.errors,
                max_time_windows |->
                   MaxWindowsSoFar(st.max_time_windows, window_count),
                total_time_windows |-> st.total_time_windows + window_count])

\* The loop over the shifts of one resource.
RECURSIVE check_shifts(_, _, _, _, _, _)
check_shifts(resource, idx, shifts, shift_idx, lim, errors) ==
    IF shift_idx >= Len(shifts) THEN errors
    ELSE LET shift == shifts[shift_idx + 1]
             breaks == GetOr(shift.breaks, <<>>)
             break_count == Len(breaks)
             resource_name == GetOr(resource.name, ToString(idx))
         IN check_shifts(resource, idx, shifts, shift_idx + 1, lim,
               IF Exceeds(break_count, lim.max_breaks_per_resource)
               THEN Append(errors,
                           ShiftBreaksError(resource_name, shift_idx,
                                            break_count, lim))
               ELSE errors)

\* The loop over the resources.
RECURSIVE check_resources(_, _, _, _)
check_resources(resources, idx, lim, errors) ==
    IF idx >= Len(resources) THEN errors
    ELSE LET resource == resources[idx + 1]
             shifts == GetOr(resource.shifts, <<>>)
         IN check_resources(resources, idx + 1, lim,
               check_shifts(resource, idx, shifts, 0, lim, errors))

\* Variant: a result with warnings is not valid either.
ValidIfNoMessage(errors, warnings) == Len(errors) = 0 /\ Len(warnings) = 0

\* valid=len(errors) == 0
Valid(errors, warnings) == Len(errors) = 0

validate_complexity(data, lim) ==
    LET jobs == GetOr(data.jobs, <<>>)
        resources == GetOr(data.resources, <<>>)
        job_count == Len(jobs)
        resource_count == Len(resources)
        e1 == IF Exceeds(job_count, lim.max_jobs)
              THEN <<TooManyJobsError(job_count, lim)>> ELSE <<>>
        e2 == IF job_count = 0 THEN Append(e1, NoJobError) ELSE e1
        e3 == IF Exceeds(resource_count, lim.max_resources)
              THEN Append(e2, TooManyVehiclesError(resource_count, lim))
              ELSE e2
        e4 == IF resource_count = 0 THEN Append(e3, NoResourceError) ELSE e3
        js == check_jobs(jobs, 0, lim,
                         [errors |-> e4, max_time_windows |-> 0,
                          total_time_windows |-> 0])
        errors == check_resources(resources, 0, lim, js.errors)
        w1 == IF Approaches(job_count, lim.max_jobs)
              THEN <<JobLimitWarning(job_count, lim)>> ELSE <<>>
        warnings == IF Approaches(resource_count, lim.max_resources)
                    THEN Append(w1, ResourceLimitWarning(resource_count, lim))
                    ELSE w1
    IN [valid |-> Valid(errors, warnings),
        errors |-> errors,
        warnings |-> warnings,
        actual_complexity |->
            [job_count |-> job_count,
             resource_count |-> resource_count,
             max_time_windows |-> js.max_time_windows,
             total_time_windows |-> js.total_time_windows]]


\* Variant: the result of the validation is logged and not acted on.
AdmitsAll(check) == TRUE

\* routes.py, solve_vrp: `if not complexity_check.valid` rejects the request,
\* anything else goes on to the solver.
Admits(check) == check.valid

\* ------------------------------------------- the problems it is called with
ListsOf(S, n) == UNION {[1..k -> S] : k \in 0..n}

Optional(S) == {Missing} \cup {Some(x) : x \in S}

Repeat(x, n) == [i \in 1..n |-> x]

JobDocs ==
    [name : Optional({"a"}),
     windows : Optional({Repeat("w", c) : c \in 0..MaxCount})]

ShiftDocs == [breaks : Optional({Repeat("b", c) : c \in 0..MaxCount})]

ResourceDocs ==
    [name : Optional({"a"}), shifts : Optional(ListsOf(ShiftDocs, MaxLen))]

\* A job and a resource with nothing declared, and ones with the most.
PlainJob == [name |-> Missing, windows |-> Missing]

BusyJob == [name |-> Some("a"), windows |-> Some(Repeat("w", MaxCount))]

PlainResource == [name |-> Missing, shifts |-> Missing]

BusyResource ==
    [name |-> Some("a"),
     shifts |-> Some(<<[breaks |-> Some(Repeat("b", MaxCount))]>>)]

CountedJobs ==
    {Missing} \cup
    {Some(Repeat(j, k)) : j \in {PlainJob, BusyJob}, k \in 0..MaxLen}

CountedResources ==
    {Missing} \cup
    {Some(Repeat(r, k)) : r \in {PlainResource, BusyResource},
                          k \in 0..MaxLen}

\* Lists of resources of which the first or the last is of any shape.
ResourceLists ==
    {<<>>} \cup
    UNION {{<<r>> \o rest : r \in ResourceDocs,
                            rest \in [1..k -> {PlainResource, BusyResource}]}
           \cup
           {rest \o <<r>> : r \in ResourceDocs,
                            rest \in [1..k -> {PlainResource, BusyResource}]} :
           k \in 0..(MaxLen - 1)}

\* Documents whose jobs are of any shape, and ones whose resources are.
SmallDocuments ==
    [jobs : Optional(ListsOf(JobDocs, MaxLen)), resources : CountedResources]
    \cup
    [jobs : CountedJobs, resources : Optional(ResourceLists)]

\* Limits within reach of these documents.
SmallLimits ==
    {[max_jobs |-> j, max_resources |-> r, max_time_windows_per_job |-> c,
      max_breaks_per_resource |-> c] :
        j \in 1..MaxLen, r \in 1..MaxLen, c \in 1..MaxCount}

\* The counts around four fifths of a limit and around the limit.
Around(maximum) ==
    {(4 * maximum) \div 5 - 1, (4 * maximum) \div 5, (4 * maximum) \div 5 + 1,
     maximum, maximum + 1}

\* Limits of several jobs and resources, and documents of plain jobs and
\* resources sized against them.
LargerLimits ==
    [max_jobs |-> MaxLimit, max_resources |-> MaxLimit,
     max_time_windows_per_job |-> MaxCount,
     max_breaks_per_resource |-> MaxCount]

SizedDocuments ==
    {[jobs |-> Some(Repeat(PlainJob, k)),
      resources |-> Some(Repeat(PlainResource, m))] :
        k \in Around(MaxLimit), m \in Around(MaxLimit)}

\* Three jobs, one of them with more time windows than the demo limit, and
\* one resource.
SixWindowsJob ==
    [name |-> Some("a"),
     windows |->
        Some(Repeat("w", DEMO_COMPLEXITY_LIMITS.max_time_windows_per_job + 1))]

SixWindowsDocument ==
    [jobs |-> Some(<<PlainJob, SixWindowsJob, PlainJob>>),
     resources |-> Some(<<PlainResource>>)]

InitValidate ==
    /\ world = NoWorld
    /\ InitStore
    /\ \/ vrp_data \in SmallDocuments /\ limits \in SmallLimits
       \/ vrp_data \in SizedDocuments /\ limits = LargerLimits
       \/ vrp_data = SixWindowsDocument /\ limits = DEMO_COMPLEXITY_LIMITS
    /\ complexity_check = NoCheck
    /\ HandlerAtRest
    /\ ToolsAtRest

\* complexity_check = validate_complexity(vrp_data, limits)
call_validate_complexity ==
    /\ complexity_check = NoCheck
    /\ complexity_check' = validate_complexity(vrp_data, limits)
    /\ UNCHANGED <<world, contexts, heap, locked, waiters, now, pc, op, ret,
                   exc, tnow, held, last, evicted, listed, vrp_data, limits,
                   handler, solver, context_handler, aspect, vrp_context,
                   tool_result>>

NextValidate == call_validate_complexity

\* The validator alone, over the small problems, the sized ones and the
\* scenario of the demo limits.
SpecValidate == InitValidate /\ [][NextValidate]_vars


(***************************************************************************)
(* routes.py: solve_vrp, the handler of POST /vrp/solve.                   *)
(***************************************************************************)
\* The task the handler runs in.
HandlerTask == "t1"

\* The request bodies of this world: a problem within the demo limits, one
\* within them that is close to the resource limit, one with a job over the
\* time-window limit, one without jobs that is close to the resource limit;
\* None is a body that is no JSON object.
RequestJson ==
    [p1 |-> [jobs |-> Some(<<BusyJob>>), resources |-> Some(<<PlainResource>>)],
     p2 |-> [jobs |-> Some(<<PlainJob>>),
             resources |->
                Some(Repeat(PlainResource,
                            DEMO_COMPLEXITY_LIMITS.max_resources - 1))],
     p3 |-> SixWindowsDocument,
     p4 |-> [jobs |-> Missing,
             resources |->
                Some(Repeat(PlainResource,
                            DEMO_COMPLEXITY_LIMITS.max_resources))]]

SolveBodies == {"p1", "p2", "p3", "p4", None}

\* The handler and the reads of the store that follow its responses.
SolveWorld ==
    [tasks |-> {HandlerTask}, sessions |-> {"s1"}, requests |-> SolveBodies,
     horizon |-> 1, hours |-> 0, keepers |-> {}, listers |-> {}]

\* f"anon_{hash(str(request_data))}": one session id per body.
AnonSession == [p1 |-> "anon_1", p2 |-> "anon_2", p3 |-> "anon_3",
                p4 |-> "anon_4"]

\* Variant: the header is not looked at.
SessionOfBody(header, request_data) == AnonSession[request_data]

\* request.headers.get("x-session-id", f"anon_{hash(str(request_data))}")
SessionOf(header, request_data) == GetOr(header, AnonSession[request_data])

\* json.loads(solution.model_dump_json()): the document of the response model
solution_dict(solution) == solution.json

\* actual_complexity.model_dump(by_alias=True, mode="json")
model_dump_by_alias(a) ==
    [jobCount |-> a.job_count, resourceCount |-> a.resource_count,
     maxTimeWindows |-> a.max_time_windows,
     totalTimeWindows |-> a.total_time_windows]

\* The 400 response of a request that is too complex.
ComplexityLimitResponse(check) ==
    [status_code |-> 400, type |-> "complexity_limit",
     errors |-> check.errors, warnings |-> check.warnings,
     actualComplexity |-> model_dump_by_alias(check.actual_complexity),
     content |-> None]

\* HTTPException(status_code=..., detail={"error": ..., "type": ...})
ErrorResponse(status_code, type) ==
    [NoResponse EXCEPT !.status_code = status_code, !.type = type]

\* JSONResponse(content=solution_dict)
SolutionResponse(content) ==
    [NoResponse EXCEPT !.status_code = 200, !.content = content]

\* What _map_error makes of a failure of the solver.
SolverErrors ==
    {[status_code |-> 401, type |-> "authentication"],
     [status_code |-> 400, type |-> "validation"],
     [status_code |-> 408, type |-> "timeout"],
     [status_code |-> 503, type |-> "network"],
     [status_code |-> 500, type |-> "server"]}

InitSolve ==
    /\ world = SolveWorld
    /\ InitStore
    /\ OuterAtRest

HandlerKeeps ==
    <<vrp_data, limits, complexity_check, context_handler, aspect,
      vrp_context, tool_result>>

StoreKeeps ==
    <<world, contexts, heap, locked, waiters, now, pc, op, ret, exc, tnow,
      held, last, evicted, listed>>

\* request_data = await request.json(), of a new request
solve_vrp_receive(p, h) ==
    /\ handler.pc \in {"idle", "done"}
    /\ pc[HandlerTask] = "idle"
    /\ handler' = [NoHandler EXCEPT !.pc = "received", !.request_data = p,
                                    !.header = h]
    /\ UNCHANGED <<StoreKeeps, HandlerKeeps, solver>>

\* complexity_check = validate_complexity(request_data) and the branch on it;
\* a body that is no dict has no .get: AttributeError, answered with 500.
solve_vrp_validate ==
    /\ handler.pc = "received"
    /\ IF handler.request_data = None
       THEN handler' = [handler EXCEPT
                           !.pc = "done",
                           !.response = ErrorResponse(500, "server")]
       ELSE LET check == validate_complexity(RequestJson[handler.request_data],
                                             DEMO_COMPLEXITY_LIMITS)
            IN IF Admits(check)
               THEN handler' = [handler EXCEPT !.pc = "validated",
                                               !.complexity_check = check]
               ELSE handler' = [handler EXCEPT
                                   !.pc = "done",
                                   !.complexity_check = check,
                                   !.response = ComplexityLimitResponse(check)]
    /\ UNCHANGED <<StoreKeeps, HandlerKeeps, solver>>

\* client = VrpClient() without API key: VrpApiError, nothing is sent.
solve_vrp_no_client ==
    /\ handler.pc = "validated"
    /\ handler' = [handler EXCEPT
                      !.pc = "done",
                      !.response = ErrorResponse(500, "authentication")]
    /\ UNCHANGED <<StoreKeeps, HandlerKeeps, solver>>

\* await client.solve(request_data): the request goes to the solver.
solve_vrp_forward ==
    /\ handler.pc = "validated"
    /\ solver' = solver \cup {handler.request_data}
    /\ handler' = [handler EXCEPT !.pc = "solving"]
    /\ UNCHANGED <<StoreKeeps, HandlerKeeps>>

\* The solver answers with a solution.
solve_vrp_solved(v) ==
    /\ handler.pc = "solving"
    /\ handler' = [handler EXCEPT !.pc = "solved", !.solution = [json |-> v]]
    /\ UNCHANGED <<StoreKeeps, HandlerKeeps, solver>>

\* The solver fails: except VrpApiError: raise vrp_error_to_http_exception(e)
solve_vrp_solver_fails(e) ==
    /\ handler.pc = "solving"
    /\ handler' = [handler EXCEPT
                      !.pc = "done",
                      !.response = ErrorResponse(e.status_code, e.type)]
    /\ UNCHANGED <<StoreKeeps, HandlerKeeps, solver>>

\* session_id = ...; await vrp_context_store.save(session_id, request_data,
\* solution_dict)
solve_vrp_save ==
    /\ handler.pc = "solved"
    /\ LET sid == SessionOf(handler.header, handler.request_data)
       IN /\ handler' = [handler EXCEPT !.pc = "saving", !.session_id = sid]
          /\ Enter(HandlerTask,
                   [kind |-> "save", sid |-> sid,
                    request |-> handler.request_data,
                    solution |-> solution_dict(handler.solution),
                    hours |-> 0])
    /\ UNCHANGED <<HandlerKeeps, solver>>

\* save has returned: return JSONResponse(content=solution_dict); had it
\* raised, except Exception answers with 500.
solve_vrp_respond ==
    /\ handler.pc = "saving"
    /\ op[HandlerTask].kind = "save"
    /\ Exit(HandlerTask)
    /\ handler' = [handler EXCEPT
                      !.pc = "done",
                      !.response =
                         IF exc[HandlerTask] THEN ErrorResponse(500, "server")
                         ELSE SolutionResponse(solution_dict(handler.solution))]
    /\ UNCHANGED <<HandlerKeeps, solver>>

\* The chat handler reads the context of a session between two requests.
get_after_solve(t, s) ==
    /\ handler.pc \in {"idle", "done"}
    /\ get(t, s)

get_returns(t) ==
    /\ op[t].kind = "get"
    /\ Release(t)

NextSolve ==
    \/ \E p \in Requests, h \in Optional(Sessions) : solve_vrp_receive(p, h)
    \/ solve_vrp_validate
    \/ solve_vrp_no_client
    \/ solve_vrp_forward
    \/ \E v \in Solutions : solve_vrp_solved(v)
    \/ \E e \in SolverErrors : solve_vrp_solver_fails(e)
    \/ solve_vrp_save
    \/ \E t \in Tasks : save_body(t)
    \/ solve_vrp_respond
    \/ \E t \in Tasks, s \in Sessions \cup {AnonSession[p] : p \in {"p1", "p2"}} :
          get_after_solve(t, s)
    \/ \E t \in Tasks : get_body(t)
    \/ \E t \in Tasks : get_returns(t)
    \/ Tick

\* The solve requests of one client after the other.
SpecSolve == InitSolve /\ [][NextSolve]_vars


(***************************************************************************)
(* routes.py: store_vrp_context, the handler of POST /vrp/context, next    *)
(* to solve_vrp and to the other operations of the store.                  *)
(***************************************************************************)
\* The request and the solution a store-context body may carry; a key the
\* body lacks reads as None.
ContextRequests == {"p2", None}

ContextSolutions == {"v2", None}

\* The bodies: a JSON object with the optional keys "sessionId", "request"
\* and "solution", or JSON that is no object.
ContextBodies ==
    [is : {"dict"}, sessionId : Optional(AllSessions),
     request : ContextRequests, solution : ContextSolutions]
    \cup {[is |-> "list", sessionId |-> Missing, request |-> None,
           solution |-> None]}

\* The store as the items of its dict, each key with the context it holds.
Items(c, h) == [i \in 1..Len(c) |-> [key |-> c[i].key, context |-> h[c[i].ref]]]

\* HTTPException(status_code=..., detail={...}) and the JSONResponse
ContextResponse(status_code, type) ==
    [NoContextHandler EXCEPT !.pc = "done", !.status_code = status_code,
                             !.type = type]

\* vrp_context_store.save(session_id=session_id, request=request_data,
\* solution=solution_data)
ContextSave(body) ==
    [kind |-> "save", sid |-> body.sessionId[1], request |-> body.request,
     solution |-> body.solution, hours |-> 0]

\* The handler up to its await of save: data = await request.json(), the
\* three data.get, the test of session_id.  A body that is no object has
\* no .get (answered with 500), a body without sessionId is answered
\* with 400.
store_vrp_context(t, body) ==
    /\ context_handler[t].pc \in {"idle", "done"}
    /\ pc[t] = "idle"
    /\ t = HandlerTask => handler.pc \in {"idle", "done"}
    /\ LET ch == [NoContextHandler EXCEPT !.before = Items(contexts, heap)]
       IN IF body.is # "dict"
          THEN /\ context_handler' =
                     [context_handler EXCEPT
                         ![t] = ContextResponse(500, "server")]
               /\ UNCHANGED <<world, contexts, heap, locked, waiters, now,
                              pc, op, ret, exc, tnow, held, last, evicted,
                              listed>>
          ELSE IF body.sessionId = Missing
          THEN /\ context_handler' =
                     [context_handler EXCEPT
                         ![t] = ContextResponse(400, "validation")]
               /\ UNCHANGED <<world, contexts, heap, locked, waiters, now,
                              pc, op, ret, exc, tnow, held, last, evicted,
                              listed>>
          ELSE /\ context_handler' =
                     [context_handler EXCEPT ![t] = [ch EXCEPT !.pc = "saving"]]
               /\ Enter(t, ContextSave(body))
    /\ UNCHANGED <<vrp_data, limits, complexity_check, handler, solver,
                   aspect, vrp_context, tool_result>>

\* save has returned: {"status": "ok", "sessionId": session_id}; had it
\* raised, except Exception answers with 500.
store_vrp_context_respond(t) ==
    /\ context_handler[t].pc = "saving"
    /\ op[t].kind = "save"
    /\ Exit(t)
    /\ context_handler' =
          [context_handler EXCEPT
              ![t] = IF exc[t] THEN ContextResponse(500, "server")
                     ELSE ContextResponse(200, "ok")]
    /\ UNCHANGED <<vrp_data, limits, complexity_check, handler, solver,
                   aspect, vrp_context, tool_result>>

\* A new solve request, while no store-context request runs in its task.
solve_vrp_request(p, h) ==
    /\ context_handler[HandlerTask].pc \in {"idle", "done"}
    /\ solve_vrp_receive(p, h)

\* An operation of the store called outside the two handlers returns.
ReleaseDirect(t) ==
    /\ op[t].kind \in {"update_solution", "delete", "clear_old_sessions"}
    /\ Release(t)

\* One client: solve requests, store-context requests and the other
\* operations of the store, one after the other.
ApiWorld ==
    [tasks |-> {HandlerTask}, sessions |-> {"s1"}, requests |-> {"p1"},
     horizon |-> 1, hours |-> 0, keepers |-> {}, listers |-> {}]

\* Two clients of one session, a solve request next to store-context
\* requests.
ConcurrentApiWorld ==
    [tasks |-> AllTasks, sessions |-> {"s1"}, requests |-> {"p1"},
     horizon |-> 0, hours |-> 0, keepers |-> {}, listers |-> {}]

InitApi == world = ApiWorld /\ InitStore /\ OuterAtRest

InitApiConcurrent == world = ConcurrentApiWorld /\ InitStore /\ OuterAtRest

SolveSteps ==
    \/ solve_vrp_validate
    \/ solve_vrp_no_client
    \/ solve_vrp_forward
    \/ \E v \in Solutions : solve_vrp_solved(v)
    \/ \E e \in SolverErrors : solve_vrp_solver_fails(e)
    \/ solve_vrp_save
    \/ solve_vrp_respond

ContextSteps ==
    \/ \E t \in Tasks, body \in ContextBodies :
          /\ body.sessionId \in Optional(Sessions)
          /\ store_vrp_context(t, body)
    \/ \E t \in Tasks : store_vrp_context_respond(t)

NextApi ==
    \/ \E p \in Requests, h \in Optional(Sessions) : solve_vrp_request(p, h)
    \/ SolveSteps
    \/ ContextSteps
    \/ \E t \in Tasks, s \in Sessions, v \in Solutions :
          update_solution(t, s, v)
    \/ \E t \in Tasks, s \in Sessions : delete(t, s)
    \/ \E t \in Tasks, h \in Hours : clear_old_sessions(t, h)
    \/ \E t \in Tasks : save_body(t)
    \/ \E t \in Tasks : update_solution_set(t)
    \/ \E t \in Tasks : update_solution_stamp(t)
    \/ \E t \in Tasks : update_solution_miss(t)
    \/ \E t \in Tasks : delete_body(t)
    \/ \E t \in Tasks : clear_old_sessions_body(t)
    \/ \E t \in Tasks : ReleaseDirect(t)
    \/ Tick

NextApiConcurrent ==
    \/ \E p \in Requests, s \in Sessions : solve_vrp_request(p, Some(s))
    \/ SolveSteps
    \/ ContextSteps
    \/ \E t \in Tasks : save_body(t)
    \/ \E t \in Tasks : Wake(t)

\* The requests of one client and the operations of the store.
SpecApi == InitApi /\ [][NextApi]_vars

\* Concurrent requests for one session.
SpecApiConcurrent == InitApiConcurrent /\ [][NextApiConcurrent]_vars


(***************************************************************************)
(* tools.py: analyze_solution and suggest_improvements.                    *)
(*                                                                         *)
(* The context is None or a dict with the optional keys "solution" and     *)
(* "request"; a solution is None or a dict with the optional keys "trips"  *)
(* "unassigned" and "unserved"; a trip has the keys "resource", "visits",   *)
(* "distance", "duration" and "load"; a visit "job", "violatedConstraints" *)
(* and "violations"; a request is None or a dict with the optional key     *)
(* "resources"; a resource has "id" and "capacity".  The value of a key    *)
(* may be None.  A string is a sequence of characters.                     *)
(***************************************************************************)
\* d.get(key): None when the key is absent
Get(field) == GetOr(field, NoneValue)

\* Python's truth value of a context, a solution or a request.
DictKeys(d) == {k \in DOMAIN d : k # "is" /\ d[k] # Missing}

Truthy(v) ==
    CASE v.is = "None" -> FALSE
      [] v.is = "list" -> v.items # <<>>
      [] v.is = "int" -> v.n # 0
      [] v.is = "dict" -> DictKeys(v) # {}

\* a or b
Or(a, b) == IF Truthy(a) THEN a ELSE b

\* ------------------------------------------------------------- str.lower
UpperCase ==
    <<"A", "B", "C", "D", "E", "F", "G", "H", "I", "J", "K", "L", "M",
      "N", "O", "P", "Q", "R", "S", "T", "U", "V", "W", "X", "Y", "Z">>

LowerCase ==
    <<"a", "b", "c", "d", "e", "f", "g", "h", "i", "j", "k", "l", "m",
      "n", "o", "p", "q", "r", "s", "t", "u", "v", "w", "x", "y", "z">>

lower_char(c) ==
    IF \E i \in 1..Len(UpperCase) : UpperCase[i] = c
    THEN LowerCase[CHOOSE i \in 1..Len(UpperCase) : UpperCase[i] = c]
    ELSE c

\* aspect.lower()
lower(str) == [i \in 1..Len(str) |-> lower_char(str[i])]

\* needle in hay
Contains(hay, needle) ==
    \E i \in 0..(Len(hay) - Len(needle)) :
        SubSeq(hay, i + 1, i + Len(needle)) = needle

\* The keywords of the dispatch.
Route == <<"r", "o", "u", "t", "e">>

Utilization == <<"u", "t", "i", "l", "i", "z", "a", "t", "i", "o", "n">>

Capacity == <<"c", "a", "p", "a", "c", "i", "t", "y">>

Constraint == <<"c", "o", "n", "s", "t", "r", "a", "i", "n", "t">>

Violation == <<"v", "i", "o", "l", "a", "t", "i", "o", "n">>

Efficiency == <<"e", "f", "f", "i", "c", "i", "e", "n", "c", "y">>

Performance == <<"p", "e", "r", "f", "o", "r", "m", "a", "n", "c", "e">>

\* Variant: the chain tests utilization before routes.
view_of_utilization_first(aspect_lower) ==
    IF Contains(aspect_lower, Utilization) \/ Contains(aspect_lower, Capacity)
    THEN "utilization"
    ELSE IF Contains(aspect_lower, Route)
    THEN "routes"
    ELSE IF Contains(aspect_lower, Constraint)
            \/ Contains(aspect_lower, Violation)
    THEN "constraints"
    ELSE IF Contains(aspect_lower, Efficiency)
            \/ Contains(aspect_lower, Performance)
    THEN "efficiency"
    ELSE "overview"

\* The if/elif chain of analyze_solution: the view it calls.
view_of(aspect_lower) ==
    IF Contains(aspect_lower, Route)
    THEN "routes"
    ELSE IF Contains(aspect_lower, Utilization)
            \/ Contains(aspect_lower, Capacity)
    THEN "utilization"
    ELSE IF Contains(aspect_lower, Constraint)
            \/ Contains(aspect_lower, Violation)
    THEN "constraints"
    ELSE IF Contains(aspect_lower, Efficiency)
            \/ Contains(aspect_lower, Performance)
    THEN "efficiency"
    ELSE "overview"


\* ------------------------------------------------------ outcomes of a call
\* A call returns a value or raises an exception.
Returned(value) == [raised |-> "", value |-> value]

Raised(exception) == [raised |-> exception, value |-> NoneValue]

EmptyDict == [is |-> "dict"]

EmptyList == List(<<>>)

Str(s) == [is |-> "str", s |-> s]

\* solution.get("trips", []), trip.get("visits", []),
\* solution.get("unassigned", [])
TripsOf(solution) == GetOr(solution.trips, EmptyList)

VisitsOf(trip) == GetOr(trip.visits, EmptyList)

UnassignedOf(solution) == GetOr(solution.unassigned, EmptyList)

\* len(x) and iteration raise TypeError on None
NoLen(x) == x.is = "None"

\* Some trip of a list of trips has "visits": None.
SomeVisitsNone(trips) ==
    \E i \in 1..Len(trips.items) : NoLen(VisitsOf(trips.items[i]))

RECURSIVE Sum(_)
Sum(numbers) ==
    IF numbers = <<>> THEN 0 ELSE Head(numbers) + Sum(Tail(numbers))

RECURSIVE Flatten(_)
Flatten(lists) ==
    IF lists = <<>> THEN <<>> ELSE Head(lists) \o Flatten(Tail(lists))

\* ---------------------------------------------------------- _analyze_routes
route_stat(idx, trip) ==
    [route_id |-> idx,
     resource |-> Get(trip.resource),
     stops |-> Len(VisitsOf(trip).items),
     distance |-> Get(trip.distance),
     duration |-> Get(trip.duration),
     jobs |-> [j \in 1..Len(VisitsOf(trip).items) |->
                  Get(VisitsOf(trip).items[j].job)]]

\* Variant: only a missing trip list counts as no trips.
OnlyNoneTrips(trips) == trips.is = "None"

\* not trips
NoTrips(trips) == ~Truthy(trips)

_analyze_routes(solution) ==
    LET trips == TripsOf(solution)
    IN IF NoTrips(trips)
       THEN Returned([error |-> "No trips found in solution"])
       ELSE IF SomeVisitsNone(trips)
       THEN Raised("TypeError")
       ELSE Returned([total_routes |-> Len(trips.items),
                      routes |-> [i \in 1..Len(trips.items) |->
                                     route_stat(i - 1, trips.items[i])]])

\* ------------------------------------------------------ _analyze_utilization
\* {r.get("id"): r for r in ...}: the last resource of an id is kept
ResourceIds(resources) ==
    {Get(resources.items[i].id) : i \in 1..Len(resources.items)}

CapacityOfId(resources, resource_id) ==
    IF resource_id \in ResourceIds(resources)
    THEN LET kept == CHOOSE i \in 1..Len(resources.items) :
                        /\ Get(resources.items[i].id) = resource_id
                        /\ \A j \in (i + 1)..Len(resources.items) :
                              Get(resources.items[j].id) # resource_id
         IN GetOr(resources.items[kept].capacity, EmptyDict)
    ELSE EmptyDict

utilization_stat(resources, trip) ==
    [resource |-> Get(trip.resource),
     capacity_used |-> GetOr(trip.load, EmptyDict),
     capacity_total |-> CapacityOfId(resources, Get(trip.resource)),
     stops |-> Len(VisitsOf(trip).items)]

_analyze_utilization(solution, request) ==
    LET trips == TripsOf(solution)
        resources == GetOr(request.resources, EmptyList)
    IN IF ~Truthy(trips)
       THEN Returned([error |-> "No trips to analyze"])
       ELSE IF request.is = "None"
       THEN Raised("AttributeError")
       ELSE IF NoLen(resources) \/ SomeVisitsNone(trips)
       THEN Raised("TypeError")
       ELSE Returned(
              [utilization_by_vehicle |->
                   [i \in 1..Len(trips.items) |->
                       utilization_stat(resources, trips.items[i])],
               vehicles_used |-> Len(trips.items),
               total_vehicles_available |->
                   Cardinality(ResourceIds(resources))])

\* ------------------------------------------------------- _extract_violations
visit_violations(visit) ==
    Or(GetOr(visit.violatedConstraints, EmptyList),
       GetOr(visit.violations, EmptyList))

violations_of_trip(trip) ==
    LET visits == VisitsOf(trip).items
    IN Flatten([j \in 1..Len(visits) |->
                   IF Truthy(visit_violations(visits[j]))
                   THEN <<[job |-> Get(visits[j].job),
                           resource |-> Get(trip.resource),
                           violations |-> visit_violations(visits[j])]>>
                   ELSE <<>>])

_extract_violations(solution) ==
    LET trips == TripsOf(solution)
    IN IF NoLen(trips) \/ SomeVisitsNone(trips)
       THEN Raised("TypeError")
       ELSE Returned(Flatten([i \in 1..Len(trips.items) |->
                                 violations_of_trip(trips.items[i])]))

\* ------------------------------------------------------ _analyze_constraints
_analyze_constraints(solution) ==
    LET violations == _extract_violations(solution)
        unassigned == UnassignedOf(solution)
    IN IF violations.raised # ""
       THEN violations
       ELSE IF NoLen(unassigned)
       THEN Raised("TypeError")
       ELSE Returned(
              [total_violations |-> Len(violations.value),
               violations |-> violations.value,
               unassigned_jobs |-> Len(unassigned.items),
               unassigned_details |-> unassigned,
               status |-> IF violations.value = <<>>
                          THEN "feasible" ELSE "has_violations"])

\* ------------------------------------------------------- _analyze_efficiency
\* t.get("distance", 0), t.get("duration", 0)
DistanceOf(trip) == GetOr(trip.distance, Number(0))

DurationOf(trip) == GetOr(trip.duration, Number(0))

\* total_distance / total_stops if total_stops > 0 else 0, as a fraction
avg_distance_per_stop(total_distance, total_stops) ==
    IF total_stops > 0
    THEN [num |-> total_distance, den |-> total_stops]
    ELSE [num |-> 0, den |-> 1]

_analyze_efficiency(solution) ==
    LET trips == TripsOf(solution)
        n == Len(trips.items)
    IN IF ~Truthy(trips)
       THEN Returned([error |-> "No trips to analyze"])
       ELSE IF \/ \E i \in 1..n : DistanceOf(trips.items[i]).is = "None"
               \/ \E i \in 1..n : DurationOf(trips.items[i]).is = "None"
               \/ SomeVisitsNone(trips)
       THEN Raised("TypeError")
       ELSE LET total_distance ==
                    Sum([i \in 1..n |-> DistanceOf(trips.items[i]).n])
                total_duration ==
                    Sum([i \in 1..n |-> DurationOf(trips.items[i]).n])
                total_stops ==
                    Sum([i \in 1..n |-> Len(VisitsOf(trips.items[i]).items)])
            IN Returned(
                 [total_distance |-> total_distance,
                  total_duration |-> total_duration,
                  total_stops |-> total_stops,
                  avg_distance_per_stop |->
                      avg_distance_per_stop(total_distance, total_stops),
                  vehicles_used |-> n])

\* --------------------------------------------------------- _analyze_overview
\* The four views are evaluated in the order of the dict display; the first
\* exception ends the call.
_analyze_overview(solution, request) ==
    LET routes == _analyze_routes(solution)
        utilization == _analyze_utilization(solution, request)
        constraints == _analyze_constraints(solution)
        efficiency == _analyze_efficiency(solution)
    IN IF routes.raised # "" THEN routes
       ELSE IF utilization.raised # "" THEN utilization
       ELSE IF constraints.raised # "" THEN constraints
       ELSE IF efficiency.raised # "" THEN efficiency
       ELSE Returned([routes |-> routes.value,
                      utilization |-> utilization.value,
                      constraints |-> constraints.value,
                      efficiency |-> efficiency.value])

\* ---------------------------------------------------- _calculate_utilization
\* avg_capacity_utilization in tenths: the key is absent from the empty
\* dict returned for a solution without trips, and .get defaults it to 0
_calculate_utilization(solution, request) ==
    LET trips == TripsOf(solution)
    IN IF ~Truthy(trips)
       THEN Returned([avg_capacity_utilization |-> Missing])
       ELSE IF request.is = "None"
       THEN Raised("AttributeError")
       ELSE IF NoLen(GetOr(request.resources, EmptyList))
       THEN Raised("TypeError")
       ELSE Returned(
              [vehicles_used |-> Len(trips.items),
               vehicles_available |->
                   Len(GetOr(request.resources, EmptyList).items),
               avg_capacity_utilization |-> Some(7)])


\* ------------------------------------------------------ suggest_improvements
\* An f-string is the sequence of its parts.
CoverageSuggestion(unassigned_count) ==
    [category |-> "coverage", severity |-> "high",
     issue |-> <<unassigned_count, " unassigned jobs">>,
     suggestion |->
         "Consider adding more vehicles or relaxing time window constraints"]

\* violations[:3]
FirstThree(violations) ==
    SubSeq(violations, 1, IF Len(violations) < 3 THEN Len(violations) ELSE 3)

ConstraintsSuggestion(violations) ==
    [category |-> "constraints", severity |-> "high",
     issue |-> <<Len(violations), " constraint violations found">>,
     suggestion |-> "Review time windows, capacities, and skills constraints",
     details |-> FirstThree(violations)]

EfficiencySuggestion ==
    [category |-> "efficiency", severity |-> "medium",
     issue |-> <<"Low average capacity utilization">>,
     suggestion |->
         "Consider reducing number of vehicles or consolidating routes"]

BalanceSuggestion ==
    [category |-> "balance", severity |-> "low",
     issue |-> <<"Unbalanced route durations">>,
     suggestion |-> "Enable route balancing in solver options"]

\* max(durations) > min(durations) * 2
MaxOf(numbers) ==
    CHOOSE m \in {numbers[i] : i \in 1..Len(numbers)} :
        \A i \in 1..Len(numbers) : numbers[i] <= m

MinOf(numbers) ==
    CHOOSE m \in {numbers[i] : i \in 1..Len(numbers)} :
        \A i \in 1..Len(numbers) : m <= numbers[i]

\* Variant: twice the shortest duration already counts.
UnbalancedOrTwice(durations) == MaxOf(durations) >= MinOf(durations) * 2

Unbalanced(durations) == MaxOf(durations) > MinOf(durations) * 2

\* utilization.get("avg_capacity_utilization", 0) < 0.6, in tenths
LowUtilization(utilization) ==
    GetOr(utilization.avg_capacity_utilization, 0) < 6

\* Variant: the tool goes on with whatever vrp_context.get("solution") is.
AnySolution(solution) == FALSE

\* not solution
NoSolutionData(solution) == ~Truthy(solution)

\* Variant: the balance rule is evaluated first.
AppendedBalanceFirst(coverage, constraints, efficiency, balance) ==
    balance \o coverage \o constraints \o efficiency

\* suggestions after the four rules, each appending what it emits
Appended(coverage, constraints, efficiency, balance) ==
    coverage \o constraints \o efficiency \o balance

\* The rules of suggest_improvements on a solution that is there.
suggest_rules(solution, request) ==
    LET unassigned == UnassignedOf(solution)
        violations == _extract_violations(solution)
        utilization == _calculate_utilization(solution, request)
        trips == TripsOf(solution)
        n == Len(trips.items)
    IN IF violations.raised # "" THEN violations
       ELSE IF utilization.raised # "" THEN utilization
       ELSE IF /\ Truthy(trips)
               /\ \E i \in 1..n : DurationOf(trips.items[i]).is = "None"
       THEN Raised("TypeError")
       ELSE LET suggestions ==
                    Appended(
                        IF Truthy(unassigned)
                        THEN <<CoverageSuggestion(Len(unassigned.items))>>
                        ELSE <<>>,
                        IF violations.value # <<>>
                        THEN <<ConstraintsSuggestion(violations.value)>>
                        ELSE <<>>,
                        IF LowUtilization(utilization.value)
                        THEN <<EfficiencySuggestion>>
                        ELSE <<>>,
                        IF /\ Truthy(trips)
                           /\ Unbalanced([i \in 1..n |->
                                            DurationOf(trips.items[i]).n])
                        THEN <<BalanceSuggestion>>
                        ELSE <<>>)
            IN Returned([suggestions |-> suggestions,
                         total_found |-> Len(suggestions)])

\* What a tool call leaves: the tool, the view it called ("" when it
\* returned before the dispatch) and the outcome.
ToolResult(tool, view, outcome) ==
    [tool |-> tool, view |-> view,
     raised |-> outcome.raised, value |-> outcome.value]

NoContextResult ==
    Returned([error |-> "No VRP solution available to analyze",
              suggestion |-> "Please solve a VRP problem first"])

NoSolutionResult(request) ==
    Returned([error |-> "No solution data available",
              available |-> Truthy(request)])

NoSuggestionsResult ==
    Returned([error |-> "No VRP solution available to analyze",
              suggestions |-> <<>>])

view_result(view, solution, request) ==
    CASE view = "routes" -> _analyze_routes(solution)
      [] view = "utilization" -> _analyze_utilization(solution, request)
      [] view = "constraints" -> _analyze_constraints(solution)
      [] view = "efficiency" -> _analyze_efficiency(solution)
      [] view = "overview" -> _analyze_overview(solution, request)

\* analyze_solution(ctx, aspect) with ctx.context.vrp_context = context
analyze_solution(context, asp) ==
    IF ~Truthy(context)
    THEN ToolResult("analyze_solution", "", NoContextResult)
    ELSE LET solution == Get(context.solution)
             request == Get(context.request)
         IN IF NoSolutionData(solution)
            THEN ToolResult("analyze_solution", "", NoSolutionResult(request))
            ELSE IF solution.is # "dict"
            THEN ToolResult("analyze_solution", "", Raised("AttributeError"))
            ELSE ToolResult("analyze_solution", view_of(lower(asp)),
                            view_result(view_of(lower(asp)),
                                        solution, request))

\* suggest_improvements(ctx)
suggest_improvements(context) ==
    IF ~Truthy(context)
    THEN ToolResult("suggest_improvements", "", NoSuggestionsResult)
    ELSE LET solution == Get(context.solution)
             request == Get(context.request)
         IN IF NoSolutionData(solution)
            THEN ToolResult("suggest_improvements", "", NoSuggestionsResult)
            ELSE IF solution.is # "dict"
            THEN ToolResult("suggest_improvements", "",
                            Raised("AttributeError"))
            ELSE ToolResult("suggest_improvements", "",
                            suggest_rules(solution, request))


\* ------------------------------------------------------------ the inputs
\* Aspects: up to MaxWords words joined, a word being a keyword in lower
\* case, in upper case or capitalised, a keyword cut short, or a word
\* that is no keyword.
Keywords ==
    {Route, Utilization, Capacity, Constraint, Violation, Efficiency,
     Performance}

Words ==
    Keywords
    \cup {<<"R", "O", "U", "T", "E">>,
          <<"C", "a", "p", "a", "c", "i", "t", "y">>,
          <<"V", "i", "o", "l", "a", "t", "i", "o", "n">>,
          <<"r", "o", "u", "t">>,
          <<"a", "l", "l">>}

Aspects == {Flatten(ws) : ws \in ListsOf(Words, MaxWords)}

FewAspects ==
    {Route, Capacity, Violation, Performance, <<"a", "l", "l">>, <<>>}

\* Solutions.  A trip is one of: a trip of v1 with one visit, with or
\* without a violated constraint; the same trip carrying a load; a trip of
\* v2 without stops, with or without a distance; the same with another
\* duration or none.
VisitDocs ==
    [is : {"dict"},
     job : {Some(Str("jobC"))},
     violatedConstraints :
         {Missing, Some(EmptyList), Some(List(<<Str("TIME_WINDOW")>>))},
     violations : {Missing}]

PlainVisit ==
    [is |-> "dict", job |-> Some(Str("jobC")),
     violatedConstraints |-> Missing, violations |-> Missing]

TripOf(resource, visits, distance, duration, load) ==
    [is |-> "dict", resource |-> Some(Str(resource)), visits |-> visits,
     distance |-> distance, duration |-> duration, load |-> load]

VisitTrips ==
    {TripOf("v1", Some(List(<<v>>)), Some(Number(10)), Some(Number(100)),
            Missing) : v \in VisitDocs}

LoadTrips ==
    {TripOf("v1", Some(List(<<PlainVisit>>)), Some(Number(10)),
            Some(Number(100)), Some(Number(l))) : l \in {1, 3}}

DistanceTrips ==
    {TripOf("v2", vs, d, Some(Number(250)), Missing) :
        vs \in {Missing, Some(EmptyList)},
        d \in {Missing, Some(NoneValue), Some(Number(7))}}

DurationTrips ==
    {TripOf("v2", Some(EmptyList), Some(Number(7)), d, Missing) :
        d \in {Missing, Some(NoneValue), Some(Number(150)),
               Some(Number(200))}}

TwoVisitsTrip ==
    TripOf("v1",
           Some(List(<<[PlainVisit EXCEPT !.job = Some(Str("jobD"))],
                       PlainVisit>>)),
           Some(Number(10)), Some(Number(100)), Missing)

TripDocs ==
    VisitTrips \cup LoadTrips \cup DistanceTrips \cup DurationTrips
    \cup {TwoVisitsTrip}

FewTrips ==
    VisitTrips
    \cup {TripOf("v2", Missing, Missing, Some(Number(250)), Missing)}

UnassignedDocs ==
    {Missing, Some(NoneValue), Some(EmptyList),
     Some(List(<<Str("jobA")>>)), Some(List(<<Str("jobA"), Str("jobB")>>))}

\* Solution documents with the key "unassigned", as a client may post them.
SolutionDocs ==
    [is : {"dict"},
     trips : {Missing, Some(NoneValue)}
             \cup {Some(List(ts)) : ts \in ListsOf(TripDocs, MaxTrips)},
     unassigned : UnassignedDocs,
     unserved : {Missing}]

\* The solver's typed response: its trips and its unserved jobs.
OnRouteResponses ==
    [trips : ListsOf(FewTrips, MaxTrips),
     unserved : {NoneValue, EmptyList, List(<<Str("jobA")>>),
                 List(<<Str("jobA"), Str("jobB")>>)}]

\* json.loads(solution.model_dump_json()): every field under its own name
model_dump_json(solution) ==
    [is |-> "dict", trips |-> Some(List(solution.trips)),
     unassigned |-> Missing, unserved |-> Some(solution.unserved)]

RequestDocs ==
    {[is |-> "dict", resources |-> Missing],
     [is |-> "dict",
      resources |-> Some(List(<<[is |-> "dict", id |-> Some(Str("v1")),
                                 capacity |-> Some(Number(4))]>>))]}

\* The context of the session: None, or a dict whose keys "solution" and
\* "request" may be missing or hold None.
ContextOf(solution, request) ==
    [is |-> "dict", solution |-> solution, request |-> request]

Contexts ==
    {NoneValue}
    \cup {ContextOf(sol, req) :
            sol \in {Missing, Some(NoneValue)}
                    \cup {Some(d) : d \in SolutionDocs},
            req \in {Missing, Some(NoneValue)}
                    \cup {Some(d) : d \in RequestDocs}}

\* The contexts that solve_vrp saves: the request and the dumped response.
SolvedContexts ==
    {ContextOf(Some(model_dump_json(r)), Some(req)) :
        r \in OnRouteResponses, req \in RequestDocs}

FewContexts ==
    {NoneValue,
     ContextOf(Missing, Missing),
     ContextOf(Some(NoneValue), Some(NoneValue)),
     ContextOf(Some(NoneValue), Some([is |-> "dict", resources |-> Missing])),
     ContextOf(Some([is |-> "dict", trips |-> Missing,
                     unassigned |-> Missing, unserved |-> Missing]),
               Some([is |-> "dict", resources |-> Missing]))}
    \cup {ContextOf(Some([is |-> "dict", trips |-> Some(List(<<t>>)),
                          unassigned |-> Some(EmptyList),
                          unserved |-> Missing]),
                    Some(r)) :
            t \in FewTrips, r \in RequestDocs}

InitTools ==
    /\ world = NoWorld
    /\ InitStore
    /\ ValidatorAtRest
    /\ HandlerAtRest
    /\ \/ aspect \in Aspects /\ vrp_context \in FewContexts
       \/ aspect \in FewAspects /\ vrp_context \in Contexts
       \/ aspect \in FewAspects /\ vrp_context \in SolvedContexts
    /\ tool_result = NoToolResult

ToolKeeps ==
    UNCHANGED <<world, contexts, heap, locked, waiters, now, pc, op, ret,
                exc, tnow, held, last, evicted, listed, vrp_data, limits,
                complexity_check, handler, solver, context_handler, aspect,
                vrp_context>>

\* tool_result = await analyze_solution(ctx, aspect)
call_analyze_solution ==
    /\ tool_result.tool = "none"
    /\ tool_result' = analyze_solution(vrp_context, aspect)
    /\ ToolKeeps

\* tool_result = await suggest_improvements(ctx)
call_suggest_improvements ==
    /\ tool_result.tool = "none"
    /\ tool_result' = suggest_improvements(vrp_context)
    /\ ToolKeeps

NextTools == call_analyze_solution \/ call_suggest_improvements

\* One call of a tool, over the aspects and the contexts.
SpecTools == InitTools /\ [][NextTools]_vars


(***************************************************************************)
(* Properties.                                                             *)
(***************************************************************************)
InCS(t) == pc[t] \in {"locked", "mid", "exit"}

\* The clock reading an ISO string stands for, read off the string.
StampTicks(u) == u[1] * TicksPerHour + (IF Len(u) > 1 THEN u[2] ELSE 0)

\* C1: save(s, p, v) followed immediately by get(s) returns an entry whose
\* problem is p and whose solution is v, with updatedAt populated.
C1_SaveThenGet ==
    \A t \in AllTasks :
        (/\ pc[t] = "exit"
         /\ op[t].kind = "get"
         /\ last.kind = "save"
         /\ last.sid = op[t].sid)
        => /\ ret[t].ref # NoRef
           /\ heap[ret[t].ref].request = last.request
           /\ heap[ret[t].ref].solution = last.solution
           /\ heap[ret[t].ref].session_id = last.sid
           /\ Len(heap[ret[t].ref].updated_at) > 0
           /\ StampTicks(heap[ret[t].ref].updated_at) \in 0..now

C1_Witness ==
    \E t \in AllTasks :
        /\ pc[t] = "exit"
        /\ op[t].kind = "get"
        /\ last.kind = "save"
        /\ last.sid = op[t].sid
        /\ last.solution # None
        /\ ret[t].ref # NoRef

\* C2: a lookup miss is no error and changes nothing: get of a session
\* without entry returns None, update_solution of it does nothing; neither
\* raises, neither creates an entry.
C2_MissIsNoOp ==
    [][\A t \in AllTasks :
         (/\ pc[t] = "locked"
          /\ pc'[t] # "locked"
          /\ op[t].kind \in {"get", "update_solution"}
          /\ ~HasKey(contexts, op[t].sid))
         => /\ contexts' = contexts
            /\ heap' = heap
            /\ ~exc'[t]
            /\ pc'[t] = "exit"
            /\ op[t].kind = "get" => ret'[t].ref = NoRef]_vars

C2_Witness ==
    \E t \in AllTasks :
        /\ pc[t] = "exit"
        /\ op[t].kind = "update_solution"
        /\ ~HasKey(contexts, op[t].sid)
        /\ Len(contexts) > 0

\* C3 (as claimed): what get returned is never changed by a later operation
\* of the store.
C3_ReturnedValueIsSnapshot ==
    [][\A t \in AllTasks :
         (held[t] # NoRef /\ held'[t] = held[t])
         => heap'[held[t]] = heap[held[t]]]_vars

\* C4: clear_old_sessions(h) removes exactly the entries whose age (the
\* current time minus updated_at) exceeds h hours, leaves the others as they
\* are and returns the number of entries removed.
C4_EvictExactly ==
    [][\A t \in AllTasks :
         (/\ pc[t] = "locked"
          /\ op[t].kind = "clear_old_sessions"
          /\ pc'[t] = "exit")
         => LET old == {s \in AllSessions :
                          /\ View[s] # Absent
                          /\ now - StampTicks(View[s].updated_at)
                                > op[t].hours * TicksPerHour}
            IN /\ View' = [s \in AllSessions |->
                             IF s \in old THEN Absent ELSE View[s]]
               /\ ret'[t].count = Cardinality(old)
               /\ Keys(contexts') =
                     SelectSeq(Keys(contexts), LAMBDA s : s \notin old)]_vars

C4_Witness ==
    \E t \in AllTasks :
        /\ pc[t] = "exit"
        /\ op[t].kind = "clear_old_sessions"
        /\ op[t].hours > 0
        /\ ret[t].count = 1
        /\ Len(contexts) = 1

\* C5 (as claimed): a second clear_old_sessions(h), with no save or
\* update_solution since the first, removes nothing.
C5_SecondEvictRemovesNone ==
    \A t \in AllTasks :
        (/\ pc[t] = "exit"
         /\ op[t].kind = "clear_old_sessions"
         /\ evicted[op[t].hours] # "no")
        => ret[t].count = 0

\* C5 (amended): a second clear_old_sessions(h), with no save or
\* update_solution since the first, removes nothing when it reads the same
\* clock value as the first.
C5_SecondEvictSameClock ==
    \A t \in AllTasks :
        (/\ pc[t] = "exit"
         /\ op[t].kind = "clear_old_sessions"
         /\ evicted[op[t].hours] = "now"
         /\ tnow[t] = now)
        => ret[t].count = 0

C5_Witness ==
    \E t \in AllTasks :
        /\ pc[t] = "exit"
        /\ op[t].kind = "clear_old_sessions"
        /\ evicted[op[t].hours] = "now"
        /\ tnow[t] = now
        /\ Len(contexts) = 1
        /\ now > 0

\* C6: an entry leaves the store only by a delete of its session or by a
\* clear_old_sessions call.
C6_NoSilentExpiry ==
    [][\A s \in AllSessions :
         (HasKey(contexts, s) /\ ~HasKey(contexts', s))
         => \E t \in AllTasks :
               /\ pc[t] = "locked"
               /\ pc'[t] = "exit"
               /\ \/ op[t].kind = "delete" /\ op[t].sid = s
                  \/ op[t].kind = "clear_old_sessions"]_vars

\* A delete has removed one entry; the other, as old as the run, is there.
C6_Witness ==
    \E t \in AllTasks, s \in AllSessions :
        /\ pc[t] = "exit"
        /\ op[t].kind = "delete"
        /\ last.kind = "save"
        /\ last.sid = op[t].sid
        /\ ~HasKey(contexts, op[t].sid)
        /\ HasKey(contexts, s)
        /\ StampTicks(View[s].updated_at) = 0
        /\ now = MaxTime

\* C7: the operations of the store exclude each other: at most one caller
\* is inside an `async with` block, the lock is held exactly then, and the
\* store changes only by a step of that caller, which no other caller's step
\* interleaves: the calls take effect one after the other.
C7_MutualExclusion ==
    /\ [](/\ Cardinality({t \in AllTasks : InCS(t)}) <= 1
          /\ locked <=> \E t \in AllTasks : InCS(t))
    /\ [][(contexts' # contexts \/ heap' # heap)
          => \E t \in AllTasks :
                /\ InCS(t)
                /\ pc'[t] # pc[t]
                /\ \A u \in AllTasks \ {t} : ~InCS(u) /\ pc'[u] = pc[u]]_vars

C7_Witness ==
    \E t \in AllTasks, u \in AllTasks :
        /\ pc[t] = "mid"
        /\ pc[u] = "wait"
        /\ op[u].kind = "get"
        /\ View["s1"].solution # None
        /\ StampTicks(View["s1"].updated_at) < now

\* C8: no deadlock: the lock is held only by a caller inside its block, and
\* under fair scheduling every call that was started gets the lock, leaves
\* its block (also when it raises) and ends.
C8_NoDeadlock ==
    /\ [](locked => \E t \in AllTasks : InCS(t))
    /\ \A t \in AllTasks : (pc[t] # "idle") ~> (pc[t] = "idle")

C8_Witness ==
    \E t \in AllTasks, u \in AllTasks :
        /\ pc[t] = "exit"
        /\ exc[t]
        /\ pc[u] = "wait"

\* C9: update_solution(s, v) on a session that has an entry replaces the
\* solution and then refreshes updated_at; request and session_id of the
\* entry, the keys of the store and the other entries stay as they are.
C9_UpdateSolutionFrame ==
    [][\A t \in AllTasks :
         (/\ op[t].kind = "update_solution"
          /\ pc[t] \in {"locked", "mid"}
          /\ pc'[t] # pc[t]
          /\ HasKey(contexts, op[t].sid))
         => /\ contexts' = contexts
            /\ ~exc'[t]
            /\ \A o \in AllSessions \ {op[t].sid} : View'[o] = View[o]
            /\ pc[t] = "locked" =>
                  /\ pc'[t] = "mid"
                  /\ View'[op[t].sid] =
                        [View[op[t].sid] EXCEPT !.solution = op[t].solution]
            /\ pc[t] = "mid" =>
                  /\ pc'[t] = "exit"
                  /\ View'[op[t].sid].request = View[op[t].sid].request
                  /\ View'[op[t].sid].session_id = op[t].sid
                  /\ View'[op[t].sid].solution = op[t].solution
                  /\ StampTicks(View'[op[t].sid].updated_at) = now]_vars

C9_Witness ==
    \E t \in AllTasks :
        /\ pc[t] = "exit"
        /\ op[t].kind = "update_solution"
        /\ Len(contexts) = 2
        /\ View[op[t].sid].solution = op[t].solution
        /\ View[op[t].sid].request = "p2"
        /\ StampTicks(View[op[t].sid].updated_at) = MaxTime
        /\ \E o \in AllSessions :
              /\ View[o].solution = None
              /\ View[o].updated_at = isoformat(0)

\* C10: save(s, p, v) puts in place of whatever the session had an entry
\* that holds exactly p and v (v absent: no solution), stamped with the
\* current time, and the store has exactly one entry for s.
C10_SaveReplaces ==
    [][\A t \in AllTasks :
         (/\ pc[t] = "locked"
          /\ op[t].kind = "save"
          /\ pc'[t] = "exit")
         => /\ View'[op[t].sid].request = op[t].request
            /\ View'[op[t].sid].solution = op[t].solution
            /\ View'[op[t].sid].session_id = op[t].sid
            /\ Len(View'[op[t].sid].updated_at) > 0
            /\ StampTicks(View'[op[t].sid].updated_at) = now
            /\ Cardinality({i \in 1..Len(contexts') :
                              contexts'[i].key = op[t].sid}) = 1]_vars

C10_Witness ==
    \E t \in AllTasks :
        /\ pc[t] = "exit"
        /\ op[t].kind = "save"
        /\ op[t].solution = None
        /\ op[t].request = "p2"
        /\ last.kind = "save"
        /\ last.sid = op[t].sid
        /\ last.solution # None
        /\ last.request = "p1"
        /\ View[op[t].sid].solution = None

\* C11: delete(s) removes the entry of s when there is one and does nothing
\* otherwise, without raising; the entries of the other sessions and their
\* order stay as they are, and a get(s) that follows returns None.
C11_DeleteFrame ==
    [][\A t \in AllTasks :
         /\ (/\ pc[t] = "locked"
              /\ op[t].kind = "delete"
              /\ pc'[t] # "locked")
             => /\ pc'[t] = "exit"
                /\ ~exc'[t]
                /\ View' = [View EXCEPT ![op[t].sid] = Absent]
                /\ Keys(contexts') =
                      SelectSeq(Keys(contexts), LAMBDA s : s # op[t].sid)
         /\ (/\ pc[t] = "locked"
              /\ op[t].kind = "get"
              /\ pc'[t] # "locked"
              /\ last.kind = "delete"
              /\ last.sid = op[t].sid)
             => ret'[t].ref = NoRef]_vars

\* A get follows the delete of a session that had an entry; the entry of
\* the other session is still there.
C11_Witness ==
    \E t \in AllTasks, s \in AllSessions :
        /\ pc[t] = "exit"
        /\ op[t].kind = "get"
        /\ last.kind = "delete"
        /\ last.sid = op[t].sid
        /\ ret[t].ref = NoRef
        /\ s # op[t].sid
        /\ View[s].request = "p2"
        /\ View[s].solution = "v1"

\* C12: list_sessions returns the session ids that have an entry when it is
\* called, each once, in the order of the dict; what it returned reads the
\* same after any later operation of the store.
C12_ListIsSnapshot ==
    [][/\ \A t \in AllTasks :
            (/\ pc[t] = "locked"
             /\ op[t].kind = "list_sessions"
             /\ pc'[t] # "locked")
            => /\ ret'[t].keys = Keys(contexts)
               /\ {ret'[t].keys[i] : i \in 1..Len(ret'[t].keys)} =
                     {s \in AllSessions : View[s] # Absent}
               /\ Len(ret'[t].keys) =
                     Cardinality({s \in AllSessions : View[s] # Absent})
               /\ contexts' = contexts
               /\ ~exc'[t]
       /\ (listed.kind # "none" /\ listed' = listed)
            => ReadListed' = ReadListed]_vars

\* The caller holds the list of two sessions; one of them has been deleted
\* since.
C12_Witness ==
    /\ listed.kind # "none"
    /\ ReadListed = <<"s2", "s1">>
    /\ last.kind = "delete"
    /\ Keys(contexts) = <<"s1">>

\* ------------------------------------------------ validate_complexity
Checked == complexity_check # NoCheck

\* The problem read as the spec reads it: what is not declared is empty.
TheJobs == IF vrp_data.jobs = Missing THEN <<>> ELSE vrp_data.jobs[1]

TheResources ==
    IF vrp_data.resources = Missing THEN <<>> ELSE vrp_data.resources[1]

WindowCount(i) ==
    IF TheJobs[i].windows = Missing THEN 0 ELSE Len(TheJobs[i].windows[1])

TheShifts(r) ==
    IF TheResources[r].shifts = Missing THEN <<>>
    ELSE TheResources[r].shifts[1]

BreakCount(r, k) ==
    IF TheShifts(r)[k].breaks = Missing THEN 0
    ELSE Len(TheShifts(r)[k].breaks[1])

\* The jobs and the shifts over their limit, and their rank in input order.
OverJobs ==
    {i \in 1..Len(TheJobs) : WindowCount(i) > limits.max_time_windows_per_job}

OverShifts ==
    UNION {{<<r, k>> : k \in {k \in 1..Len(TheShifts(r)) :
                         BreakCount(r, k) > limits.max_breaks_per_resource}} :
           r \in 1..Len(TheResources)}

JobRank(i) == Cardinality({j \in OverJobs : j <= i})

ShiftRank(p) ==
    Cardinality({q \in OverShifts :
                   q[1] < p[1] \/ (q[1] = p[1] /\ q[2] <= p[2])})

JobLabel(i) ==
    IF TheJobs[i].name = Missing THEN ToString(i - 1) ELSE TheJobs[i].name[1]

ResourceLabel(r) ==
    IF TheResources[r].name = Missing THEN ToString(r - 1)
    ELSE TheResources[r].name[1]

CountErrors ==
    (IF Len(TheJobs) > limits.max_jobs
     THEN <<TooManyJobsError(Len(TheJobs), limits)>> ELSE <<>>)
    \o (IF Len(TheJobs) = 0 THEN <<NoJobError>> ELSE <<>>)
    \o (IF Len(TheResources) > limits.max_resources
        THEN <<TooManyVehiclesError(Len(TheResources), limits)>> ELSE <<>>)
    \o (IF Len(TheResources) = 0 THEN <<NoResourceError>> ELSE <<>>)

HasWarning(k) ==
    \E i \in 1..Len(complexity_check.warnings) :
        complexity_check.warnings[i].kind = k

\* C15: valid is true exactly when errors is empty; warnings have no part in
\* it, and the solve flow admits a request exactly when errors is empty.
C15_ValidIffNoErrors ==
    Checked =>
        /\ complexity_check.valid <=> complexity_check.errors = <<>>
        /\ Admits(complexity_check) <=> complexity_check.errors = <<>>

\* A problem within the limits that carries a warning.
C15_Witness ==
    /\ Checked
    /\ complexity_check.valid
    /\ Admits(complexity_check)
    /\ complexity_check.warnings # <<>>

\* C16: errors is, in this order and with nothing else: the messages of the
\* job count (too many; none), those of the resource count (too many; none),
\* one message per job over the time-window limit in input order, one per
\* shift over the break limit in input order; a problem with no job and one
\* with one job more than the limit are not valid.
C16_ErrorsInOrder ==
    Checked =>
        LET e == complexity_check.errors
            h == Len(CountErrors)
            nj == Cardinality(OverJobs)
            ns == Cardinality(OverShifts)
        IN /\ Len(e) = h + nj + ns
           /\ SubSeq(e, 1, h) = CountErrors
           /\ \A i \in OverJobs :
                 e[h + JobRank(i)] =
                    JobWindowsError(JobLabel(i), WindowCount(i), limits)
           /\ \A p \in OverShifts :
                 e[h + nj + ShiftRank(p)] =
                    ShiftBreaksError(ResourceLabel(p[1]), p[2] - 1,
                                     BreakCount(p[1], p[2]), limits)
           /\ Len(TheJobs) = 0 => ~complexity_check.valid
           /\ Len(TheJobs) = limits.max_jobs + 1 => ~complexity_check.valid

\* Errors of every kind but "no job", two of them for shifts of two
\* resources.
C16_Witness ==
    /\ Checked
    /\ Len(TheJobs) = limits.max_jobs + 1
    /\ Len(TheResources) > limits.max_resources
    /\ Cardinality(OverJobs) = 1
    /\ Cardinality(OverShifts) = 2
    /\ \E p \in OverShifts, q \in OverShifts : p[1] # q[1]
    /\ Len(complexity_check.errors) = 5

\* C17 (as claimed): the job-limit warning is there exactly when the job
\* count is at least 80% of max_jobs, the resource-limit warning exactly when
\* the resource count is at least 80% of max_resources, whatever the errors.
C17_WarningsFromEightyPercent ==
    Checked =>
        /\ HasWarning("Approaching job limit")
              <=> 5 * Len(TheJobs) >= 4 * limits.max_jobs
        /\ HasWarning("Approaching resource limit")
              <=> 5 * Len(TheResources) >= 4 * limits.max_resources

\* C18: actual_complexity holds the number of jobs, the number of resources,
\* the most time windows of a single job and the number of time windows of
\* all jobs, valid or not; there are as many per-job errors as jobs over the
\* limit; the three jobs of which one has six windows give one error, naming
\* it, and max_time_windows = 6.
C18_ActualComplexity ==
    Checked =>
        LET a == complexity_check.actual_complexity
            counts == {WindowCount(i) : i \in 1..Len(TheJobs)}
            most == IF counts = {} THEN 0
                    ELSE CHOOSE m \in counts : \A c \in counts : c <= m
            e == complexity_check.errors
        IN /\ a.job_count = Len(TheJobs)
           /\ a.resource_count = Len(TheResources)
           /\ a.max_time_windows = most
           /\ a.total_time_windows =
                 Cardinality({p \in (1..Len(TheJobs)) \X (1..most) :
                                p[2] <= WindowCount(p[1])})
           /\ Cardinality({i \in 1..Len(e) :
                              e[i].kind = "Job has time windows"}) =
                 Cardinality(OverJobs)
           /\ (vrp_data = SixWindowsDocument
               /\ limits = DEMO_COMPLEXITY_LIMITS)
              => /\ ~complexity_check.valid
                 /\ e = <<JobWindowsError("a", 6, limits)>>
                 /\ a.max_time_windows = 6

C18_Witness ==
    /\ Checked
    /\ vrp_data = SixWindowsDocument
    /\ limits = DEMO_COMPLEXITY_LIMITS
    /\ complexity_check.actual_complexity.total_time_windows = 6
    /\ Len(complexity_check.errors) = 1

\* ------------------------------------------------------------ solve_vrp
\* The validation result of the request the handler works on.
ResultOf(p) == validate_complexity(RequestJson[p], DEMO_COMPLEXITY_LIMITS)

StoreChanges == contexts' # contexts \/ heap' # heap

\* C13: the validation comes before the forwarding: a request goes to the
\* solver only after it was validated and found valid; a request that is not
\* valid is never sent to the solver and never written to the store, and it
\* is answered with a 400 response that carries the errors, the warnings and
\* the actual complexity of its validation result.
C13_ValidatedBeforeForwarded ==
    /\ [](\A p \in solver : p # None /\ ResultOf(p).valid)
    /\ [][/\ solver' # solver
             => /\ handler.pc = "validated"
                /\ handler.complexity_check = ResultOf(handler.request_data)
                /\ handler.complexity_check.valid
                /\ solver' = solver \cup {handler.request_data}
          /\ StoreChanges
             => /\ handler.request_data \in solver
                /\ ResultOf(handler.request_data).valid
          /\ (/\ handler.pc = "received"
              /\ handler'.pc # "received"
              /\ handler.request_data # None
              /\ ~ResultOf(handler.request_data).valid)
             => /\ handler'.pc = "done"
                /\ handler'.response.status_code = 400
                /\ handler'.response.errors =
                      ResultOf(handler.request_data).errors
                /\ handler'.response.errors # <<>>
                /\ handler'.response.warnings =
                      ResultOf(handler.request_data).warnings
                /\ handler'.response.actualComplexity =
                      model_dump_by_alias(
                         ResultOf(handler.request_data).actual_complexity)
                /\ solver' = solver
                /\ ~StoreChanges]_vars

\* A request without jobs and close to the resource limit has been rejected
\* with its error and its warning; the store holds what an earlier request
\* of the session left.
C13_Witness ==
    /\ handler.pc = "done"
    /\ handler.request_data = "p4"
    /\ handler.response.status_code = 400
    /\ Len(handler.response.errors) = 1
    /\ Len(handler.response.warnings) = 1
    /\ handler.response.actualComplexity.resourceCount =
          DEMO_COMPLEXITY_LIMITS.max_resources
    /\ handler.header = Some("s1")
    /\ HasKey(contexts, "s1")
    /\ "p4" \notin solver

\* The session of the request the handler works on.
TheSession ==
    IF handler.header = Missing THEN AnonSession[handler.request_data]
    ELSE handler.header[1]

\* C14: when the solver has answered with a solution, the request and that
\* solution are in the store under the session of the request by the time
\* the response is returned, and a get of the session that follows returns
\* them; when the solver fails, the request changes nothing in the store.
C14_SolvedIsStored ==
    /\ []((handler.pc = "done" /\ handler.response.status_code = 200)
          => /\ HasKey(contexts, TheSession)
             /\ heap[DictGet(contexts, TheSession)].request =
                   handler.request_data
             /\ heap[DictGet(contexts, TheSession)].solution =
                   handler.solution.json
             /\ heap[DictGet(contexts, TheSession)].session_id = TheSession
             /\ handler.response.content = handler.solution.json
             /\ handler.solution # NoSolution
             /\ \A t \in AllTasks :
                   (/\ pc[t] = "exit"
                    /\ op[t].kind = "get"
                    /\ op[t].sid = TheSession)
                   => /\ ret[t].ref # NoRef
                      /\ heap[ret[t].ref].request = handler.request_data
                      /\ heap[ret[t].ref].solution = handler.solution.json)
    /\ [][/\ (handler.pc = "solving" /\ handler'.pc # "solving")
             => \/ handler'.pc = "solved" /\ handler'.solution # NoSolution
                \/ /\ handler'.pc = "done"
                   /\ handler'.response.status_code # 200
                   /\ handler'.response.content = None
          /\ StoreChanges
             => /\ handler.pc = "saving"
                /\ handler.solution # NoSolution
          /\ (handler.pc = "saving" /\ handler'.pc # "saving")
             => handler'.response.status_code = 200]_vars

\* A get follows the response to a solved request of a session that the
\* header names and whose entry held another request before.
C14_Witness ==
    \E t \in AllTasks :
        /\ pc[t] = "exit"
        /\ op[t].kind = "get"
        /\ handler.pc = "done"
        /\ handler.response.status_code = 200
        /\ handler.header = Some("s1")
        /\ op[t].sid = "s1"
        /\ handler.request_data = "p2"
        /\ ret[t].ref # NoRef
        /\ Len(contexts) = 3
        /\ now = 1
        /\ heap[ret[t].ref].updated_at = isoformat(1)

\* ------------------------------------------------------------------ tools
\* A typed character is a letter of a keyword, in either case.
SameLetter(typed, letter) ==
    \/ typed = letter
    \/ \E n \in 1..Len(LowerCase) :
          LowerCase[n] = letter /\ UpperCase[n] = typed

\* The keyword occurs somewhere in the aspect, whatever the case.
Occurs(keyword, str) ==
    \E i \in 0..(Len(str) - Len(keyword)) :
        \A j \in 1..Len(keyword) : SameLetter(str[i + j], keyword[j])

PriorityOrder ==
    <<{Route}, {Utilization, Capacity}, {Constraint, Violation},
      {Efficiency, Performance}>>

ViewNames == <<"routes", "utilization", "constraints", "efficiency">>

Matched(str) ==
    {p \in 1..Len(PriorityOrder) : \E k \in PriorityOrder[p] : Occurs(k, str)}

Dispatched == tool_result.tool = "analyze_solution" /\ tool_result.view # ""

SameOutcome(outcome) ==
    /\ tool_result.raised = outcome.raised
    /\ tool_result.value = outcome.value

TheSolution == Get(vrp_context.solution)

TheRequest == Get(vrp_context.request)

\* C19: analyze_solution dispatches on the aspect by substring, whatever
\* the case, in a fixed priority order: the view is that of the first of
\* "route"; "utilization" or "capacity"; "constraint" or "violation";
\* "efficiency" or "performance" that occurs anywhere in the aspect,
\* wherever the other keywords stand, and the result is that view's; an
\* aspect with no keyword gets the composite of the four views.
C19_DispatchByPriority ==
    Dispatched =>
        LET m == Matched(aspect)
            first == CHOOSE p \in m : \A q \in m : p <= q
        IN IF m = {}
           THEN /\ tool_result.view = "overview"
                /\ tool_result.raised = "" =>
                      tool_result.value =
                          [routes |-> _analyze_routes(TheSolution).value,
                           utilization |->
                               _analyze_utilization(TheSolution,
                                                    TheRequest).value,
                           constraints |->
                               _analyze_constraints(TheSolution).value,
                           efficiency |->
                               _analyze_efficiency(TheSolution).value]
           ELSE /\ tool_result.view = ViewNames[first]
                /\ first = 1 => SameOutcome(_analyze_routes(TheSolution))
                /\ first = 2 =>
                      SameOutcome(_analyze_utilization(TheSolution,
                                                       TheRequest))
                /\ first = 3 =>
                      SameOutcome(_analyze_constraints(TheSolution))
                /\ first = 4 => SameOutcome(_analyze_efficiency(TheSolution))

\* "Capacity" stands before "ROUTE" in the aspect and the route view answers.
C19_Witness ==
    /\ Dispatched
    /\ aspect = <<"C", "a", "p", "a", "c", "i", "t", "y",
                  "R", "O", "U", "T", "E">>
    /\ tool_result.view = "routes"
    /\ tool_result.raised = ""
    /\ "total_routes" \in DOMAIN tool_result.value
    /\ tool_result.value.total_routes = 1

\* The context is None or empty, or its solution is missing, None or empty.
ContextAbsent ==
    \/ vrp_context.is = "None"
    \/ vrp_context.solution = Missing /\ vrp_context.request = Missing

SolutionAbsent ==
    /\ vrp_context.is = "dict"
    /\ \/ vrp_context.solution = Missing
       \/ vrp_context.solution = Some(NoneValue)
       \/ /\ vrp_context.solution # Missing
          /\ TheSolution.is = "dict"
          /\ TheSolution.trips = Missing
          /\ TheSolution.unassigned = Missing
          /\ TheSolution.unserved = Missing

NoSolutionErrors ==
    {"No VRP solution available to analyze", "No solution data available"}

\* C20: when the context is absent or has no solution, a tool call does
\* not raise: analyze_solution returns, for every aspect and before any
\* view is called, a dict with an "error" that says no solution is there,
\* and suggest_improvements returns that error with an empty "suggestions".
C20_NoSolutionNoRaise ==
    (tool_result.tool # "none" /\ (ContextAbsent \/ SolutionAbsent)) =>
        /\ tool_result.raised = ""
        /\ "error" \in DOMAIN tool_result.value
        /\ tool_result.value.error \in NoSolutionErrors
        /\ tool_result.tool = "analyze_solution" => tool_result.view = ""
        /\ tool_result.tool = "suggest_improvements" =>
              /\ "suggestions" \in DOMAIN tool_result.value
              /\ tool_result.value.suggestions = <<>>

\* The context holds a request and None for the solution; analyze_solution
\* was asked for the routes.
C20_Witness ==
    /\ tool_result.tool = "analyze_solution"
    /\ vrp_context.is = "dict"
    /\ vrp_context.solution = Some(NoneValue)
    /\ aspect = Route
    /\ tool_result.raised = ""
    /\ tool_result.value.error = "No solution data available"
    /\ tool_result.value.available

\* suggest_improvements has returned its suggestions.
Suggested ==
    /\ tool_result.tool = "suggest_improvements"
    /\ tool_result.raised = ""
    /\ "total_found" \in DOMAIN tool_result.value

TheSuggestions == tool_result.value.suggestions

Emitted(category) ==
    \E i \in 1..Len(TheSuggestions) : TheSuggestions[i].category = category

RuleOrder == <<"coverage", "constraints", "efficiency", "balance">>

RuleRank(category) ==
    CHOOSE p \in 1..Len(RuleOrder) : RuleOrder[p] = category

TheTrips ==
    IF TheSolution.trips = Missing \/ TheSolution.trips[1].is = "None"
    THEN <<>>
    ELSE TheSolution.trips[1].items

TheUnassigned ==
    IF TheSolution.unassigned = Missing \/ TheSolution.unassigned[1].is = "None"
    THEN <<>>
    ELSE TheSolution.unassigned[1].items

TripVisits(i) ==
    IF TheTrips[i].visits = Missing THEN <<>> ELSE TheTrips[i].visits[1].items

NonEmptyList(field) ==
    field # Missing /\ field[1].is = "list" /\ field[1].items # <<>>

SomeViolation ==
    \E i \in 1..Len(TheTrips) : \E j \in 1..Len(TripVisits(i)) :
        \/ NonEmptyList(TripVisits(i)[j].violatedConstraints)
        \/ NonEmptyList(TripVisits(i)[j].violations)

TripDuration(i) ==
    IF TheTrips[i].duration = Missing THEN 0 ELSE TheTrips[i].duration[1].n

\* C21: suggest_improvements evaluates its rules in the order coverage,
\* constraints, efficiency, balance, and every rule whose condition holds
\* emits its suggestion: the categories returned are in that order, each at
\* most once, a category is there exactly when its rule's condition holds,
\* and total_found is the number of suggestions.
C21_RulesInOrder ==
    Suggested =>
        /\ \A i \in 1..Len(TheSuggestions) :
              TheSuggestions[i].category \in
                  {RuleOrder[p] : p \in 1..Len(RuleOrder)}
        /\ \A i, j \in 1..Len(TheSuggestions) :
              i < j => RuleRank(TheSuggestions[i].category)
                           < RuleRank(TheSuggestions[j].category)
        /\ tool_result.value.total_found = Len(TheSuggestions)
        /\ Emitted("coverage") <=> TheUnassigned # <<>>
        /\ Emitted("constraints") <=> SomeViolation
        /\ Emitted("efficiency") <=>
              LowUtilization(_calculate_utilization(TheSolution,
                                                    TheRequest).value)
        /\ Emitted("balance") <=>
              \E i, j \in 1..Len(TheTrips) :
                  TripDuration(i) > 2 * TripDuration(j)

\* Two unassigned jobs, a violated constraint and trips of 100 and 250:
\* coverage, constraints and balance are returned, in that order.
C21_Witness ==
    /\ Suggested
    /\ Len(TheUnassigned) = 2
    /\ tool_result.value.total_found = 3
    /\ TheSuggestions[1].category = "coverage"
    /\ TheSuggestions[2].category = "constraints"
    /\ TheSuggestions[3].category = "balance"

\* The load of every trip and the capacity of its vehicle are numbers.
LoadsKnown ==
    /\ TheTrips # <<>>
    /\ TheRequest.is = "dict"
    /\ TheRequest.resources # Missing
    /\ \A i \in 1..Len(TheTrips) :
          /\ TheTrips[i].load # Missing
          /\ \E k \in 1..Len(TheRequest.resources[1].items) :
                /\ TheRequest.resources[1].items[k].id = TheTrips[i].resource
                /\ TheRequest.resources[1].items[k].capacity # Missing

TripLoad(i) == TheTrips[i].load[1].n

TripCapacity(i) ==
    LET resources == TheRequest.resources[1].items
        k == CHOOSE k \in 1..Len(resources) :
                 resources[k].id = TheTrips[i].resource
    IN resources[k].capacity[1].n

\* The loads of the trips are less than 60% of the capacities of their
\* vehicles.
UtilizationBelowSixtyPercent ==
    10 * Sum([i \in 1..Len(TheTrips) |-> TripLoad(i)])
        < 6 * Sum([i \in 1..Len(TheTrips) |-> TripCapacity(i)])

\* C22: suggest_improvements emits the "efficiency" suggestion, of
\* severity "medium", exactly when the average capacity utilization of the
\* vehicles of the solution is below 60%.
C22_EfficiencyBelowSixtyPercent ==
    (Suggested /\ LoadsKnown) =>
        /\ Emitted("efficiency") <=> UtilizationBelowSixtyPercent
        /\ \A i \in 1..Len(TheSuggestions) :
              TheSuggestions[i].category = "efficiency" =>
                  TheSuggestions[i].severity = "medium"

\* The jobs that the solution leaves out, under the key the document has.
HasUnserved == TheSolution.unserved # Missing

UnservedJobs ==
    IF HasUnserved
    THEN IF TheSolution.unserved[1].is = "None"
         THEN <<>>
         ELSE TheSolution.unserved[1].items
    ELSE TheUnassigned

ConstraintView ==
    /\ tool_result.tool = "analyze_solution"
    /\ tool_result.view = "constraints"
    /\ tool_result.raised = ""

\* C23: for a solution with unserved jobs suggest_improvements emits a
\* "coverage" suggestion of severity "high" that tells their number, and
\* the constraint view reports that number as unassigned_jobs; without
\* unserved jobs there is no coverage suggestion and the number is 0.  This
\* holds for the solution document that solve_vrp saves.
C23_UnservedCounted ==
    /\ Suggested =>
          /\ Emitted("coverage") <=> UnservedJobs # <<>>
          /\ \A i \in 1..Len(TheSuggestions) :
                TheSuggestions[i].category = "coverage" =>
                    /\ TheSuggestions[i].severity = "high"
                    /\ TheSuggestions[i].issue[1] = Len(UnservedJobs)
    /\ ConstraintView =>
          tool_result.value.unassigned_jobs = Len(UnservedJobs)

\* Trip i is a longest trip, trip k a shortest one.
Longest(i) == \A j \in 1..Len(TheTrips) : TripDuration(j) <= TripDuration(i)

Shortest(k) == \A j \in 1..Len(TheTrips) : TripDuration(k) <= TripDuration(j)

\* C24: suggest_improvements emits the "balance" suggestion, of severity
\* "low", exactly when the longest trip duration is strictly greater than
\* twice the shortest, both over all trips of the solution: 100 and 250
\* emit it; 100 and 150, 100 and 200, or a single trip do not.
C24_BalanceAboveTwice ==
    Suggested =>
        /\ Emitted("balance") <=>
              \E i, k \in 1..Len(TheTrips) :
                  /\ Longest(i)
                  /\ Shortest(k)
                  /\ TripDuration(i) > 2 * TripDuration(k)
        /\ \A i \in 1..Len(TheSuggestions) :
              TheSuggestions[i].category = "balance" =>
                  TheSuggestions[i].severity = "low"
        /\ (Len(TheTrips) = 1 /\ TripDuration(1) > 0) => ~Emitted("balance")

\* Two trips of 100 and 200, exactly twice: no balance suggestion.
C24_Witness ==
    /\ Suggested
    /\ Len(TheTrips) = 2
    /\ TripDuration(1) = 100
    /\ TripDuration(2) = 200
    /\ ~Emitted("balance")

RouteView ==
    /\ tool_result.tool = "analyze_solution"
    /\ tool_result.view = "routes"
    /\ tool_result.raised = ""

\* A key of a trip: its value, or None when the trip lacks it.
KeyOf(field) == IF field = Missing THEN NoneValue ELSE field[1]

\* C25: the route view on a solution whose trip list is empty or missing
\* returns a no-trips error and no route list; with at least one trip it
\* returns one record per trip, in trip order, with the trip's resource,
\* number of stops, distance, duration and the jobs visited, in visit
\* order.
C25_RouteView ==
    RouteView =>
        IF TheTrips = <<>>
        THEN /\ DOMAIN tool_result.value = {"error"}
             /\ tool_result.value.error = "No trips found in solution"
        ELSE /\ "error" \notin DOMAIN tool_result.value
             /\ tool_result.value.total_routes = Len(TheTrips)
             /\ Len(tool_result.value.routes) = Len(TheTrips)
             /\ \A i \in 1..Len(TheTrips) :
                   LET route == tool_result.value.routes[i]
                   IN /\ route.route_id = i - 1
                      /\ route.resource = KeyOf(TheTrips[i].resource)
                      /\ route.stops = Len(TripVisits(i))
                      /\ route.distance = KeyOf(TheTrips[i].distance)
                      /\ route.duration = KeyOf(TheTrips[i].duration)
                      /\ Len(route.jobs) = Len(TripVisits(i))
                      /\ \A j \in 1..Len(TripVisits(i)) :
                            route.jobs[j] = KeyOf(TripVisits(i)[j].job)

\* The route view was asked for a solution with "trips": [].
C25_Witness ==
    /\ RouteView
    /\ TheSolution.trips = Some(EmptyList)
    /\ tool_result.value.error = "No trips found in solution"

\* The efficiency view was called, whatever came of it.
EfficiencyCalled ==
    /\ tool_result.tool = "analyze_solution"
    /\ tool_result.view = "efficiency"

\* A number of a trip, 0 when the trip has no such value.
ValueOrZero(field) ==
    IF field = Missing \/ field[1].is = "None" THEN 0 ELSE field[1].n

\* C26: for every solution with at least one trip the efficiency view
\* does not abort: the totals of distance, duration and stops are the
\* sums over the trips, a trip without a distance or a duration value
\* counting 0, and the average distance per stop is 0 when there is no
\* stop.
C26_EfficiencyNeverAborts ==
    (EfficiencyCalled /\ TheTrips # <<>>) =>
        /\ tool_result.raised = ""
        /\ tool_result.value.total_distance =
              Sum([i \in 1..Len(TheTrips) |->
                      ValueOrZero(TheTrips[i].distance)])
        /\ tool_result.value.total_duration =
              Sum([i \in 1..Len(TheTrips) |->
                      ValueOrZero(TheTrips[i].duration)])
        /\ tool_result.value.total_stops =
              Sum([i \in 1..Len(TheTrips) |-> Len(TripVisits(i))])
        /\ tool_result.value.total_stops = 0 =>
              tool_result.value.avg_distance_per_stop.num = 0
        /\ tool_result.value.vehicles_used = Len(TheTrips)

\* ------------------------------------------------------ the store's clients
\* C27: in every reachable state of the store, under solve requests,
\* store-context requests, update_solution, delete and eviction, a session
\* id has at most one entry, the entry's session_id is its key, and the
\* entry's request is present (not None); its solution may be None.
C27_EntriesWellFormed ==
    /\ \A i, j \in 1..Len(contexts) :
          contexts[i].key = contexts[j].key => i = j
    /\ \A i \in 1..Len(contexts) :
          /\ heap[contexts[i].ref].session_id = contexts[i].key
          /\ heap[contexts[i].ref].request # None

\* The task's store-context request is answered in this step, with a
\* failure.
AnsweredWithFailure(t) ==
    /\ context_handler[t].pc # "done"
    /\ context_handler'[t].pc = "done"
    /\ context_handler'[t].status_code # 200

\* C29: a store-context request that is answered with a failure (no
\* sessionId, or an error raised while saving) leaves the store as it was
\* when the request came: only requests answered with success modify it.
C29_FailureLeavesStore ==
    [][\A t \in AllTasks :
          AnsweredWithFailure(t) =>
              Items(contexts', heap') =
                  IF context_handler[t].pc = "saving"
                  THEN context_handler[t].before
                  ELSE Items(contexts, heap)]_vars

\* The (request, solution) pair of one call of save.
PairOf(o) == <<o.request, o.solution>>

\* The pair the session's entry holds.
EntryPair(s) ==
    <<heap[DictGet(contexts, s)].request, heap[DictGet(contexts, s)].solution>>

\* The task whose save has assigned the entry and still holds the lock.
Assigning(t, s) == pc[t] = "exit" /\ op[t].kind = "save" /\ op[t].sid = s

\* No request is under way.
Quiescent ==
    /\ \A t \in Tasks : pc[t] = "idle" /\ context_handler[t].pc # "saving"
    /\ handler.pc \in {"idle", "done"}

\* C30: under every interleaving of solve requests and store-context
\* requests for one session, the session's entry holds the request and the
\* solution of one single call of save: of the save that holds the lock
\* once it has assigned, else of the save that left the lock last; when no
\* request is under way it is the pair of the save that took the lock last.
C30_PairOfOneSave ==
    \A s \in Sessions :
       HasKey(contexts, s) =>
          /\ \A t \in Tasks : Assigning(t, s) => EntryPair(s) = PairOf(op[t])
          /\ (\A t \in Tasks : ~Assigning(t, s)) =>
                /\ last.kind = "save"
                /\ last.sid = s
                /\ EntryPair(s) = PairOf(last)
          /\ Quiescent => EntryPair(s) = PairOf(last)

\* The save of a solve request has replaced the pair of a store-context
\* request and holds the lock, while another store-context request with a
\* third pair waits for the lock.
C30_Witness ==
    /\ HasKey(contexts, "s1")
    /\ handler.pc = "saving"
    /\ Assigning(HandlerTask, "s1")
    /\ last.kind = "save"
    /\ PairOf(last) # PairOf(op[HandlerTask])
    /\ \E u \in Tasks :
          /\ pc[u] = "wait"
          /\ context_handler[u].pc = "saving"
          /\ PairOf(op[u]) # PairOf(last)
          /\ PairOf(op[u]) # PairOf(op[HandlerTask])

\* How often the task stands in the queue of the lock.
Queued(t) == Cardinality({i \in 1..Len(waiters) : waiters[i] = t})

\* The task's step is its cancellation or the end of the cancelled call.
CancelStep(t) ==
    \/ pc[t] = "wait" /\ pc'[t] = "cancelled"
    \/ pc[t] = "cancelled" /\ pc'[t] = "idle"

\* C28: a caller cancelled while it waits for the lock has no effect: its
\* cancellation changes neither the store nor the lock nor any other
\* caller, and its call ends without having entered its block; the lock is
\* held only by a caller inside its block; the queue holds exactly the
\* callers that wait; and under fair scheduling every other waiting caller
\* still gets the lock.
C28_CancelledWaitHasNoEffect ==
    /\ [][\A t \in AllTasks :
             CancelStep(t) =>
                /\ contexts' = contexts
                /\ heap' = heap
                /\ locked' = locked
                /\ last' = last
                /\ ~InCS(t) /\ pc'[t] \notin {"locked", "mid", "exit"}
                /\ \A u \in AllTasks \ {t} :
                      pc'[u] = pc[u] /\ op'[u] = op[u]]_vars
    /\ [](locked => \E t \in AllTasks : InCS(t))
    /\ [](\A t \in AllTasks : Queued(t) = IF pc[t] = "wait" THEN 1 ELSE 0)
    /\ \A t \in AllTasks : (pc[t] = "wait") ~> (pc[t] # "wait")

\* A save that waited at the head of the queue with the lock free has
\* been cancelled: the store holds another solution than the one it was
\* to save, and the caller that queued behind it waits with the lock free.
C28_Witness ==
    \E t \in AllTasks, u \in AllTasks :
        /\ pc[t] = "cancelled"
        /\ op[t].kind = "save"
        /\ HasKey(contexts, op[t].sid)
        /\ View[op[t].sid].solution # op[t].solution
        /\ pc[u] = "wait"
        /\ ~locked
        /\ waiters = <<u>>

====
